---- MODULE Spec2Model ----
(***************************************************************************)
(* Rate limiters and request handlers of the NEST FEST registration       *)
(* service: the submission, login and generation endpoints with their     *)
(* module-level rate-limit tables, and the participation and coaching     *)
(* endpoints.  Every endpoint is its own serverless function with its own *)
(* module state, so one behaviour exercises one endpoint, either through  *)
(* HTTP requests (driver "http") or by calling the limiter functions of   *)
(* the module directly (driver "unit").                                   *)
(***************************************************************************)
EXTENDS Integers, Sequences, FiniteSets, Bags, TLC

\* ------------------------------------------------------------------ bounds
\* number of clock advances in one behaviour
MaxTicks == 2
\* number of requests that can be in flight together
MaxReq == 2
\* client keys (x-forwarded-for values)
Keys == {"ip1", "ip2"}

\* ------------------------------------------------- program constants (ms)
MAX_SUBMISSIONS == 3
COOLDOWN_PERIOD == 60 * 60 * 1000
MAX_ATTEMPTS == 5
LOCKOUT_DURATION == 15 * 60 * 1000
MAX_GENERATIONS == 10
GENERATION_COOLDOWN == 60 * 60 * 1000

Endpoints == {"submit", "login", "generate", "participate", "coaching",
              "session", "submissions", "lookup", "participateV1"}
Limited == {"submit", "login", "generate"}

VARIABLES
    endpoint,          \* the serverless function this process serves
    driver,            \* "http": requests; "unit": direct limiter calls;
                       \* "template": a direct generateWithTemplate call;
                       \* "analysis": a direct call of a text-analysis helper;
                       \* "auth": a direct call of requireAuth / requireAdmin;
                       \* "sheet": calls that read or write the spreadsheet;
                       \* "twin": requests, with the table twin kept
    env,               \* process.env flags the endpoint reads
    now,               \* Date.now()
    submissionCounts,  \* Map clientId -> {count, lastSubmission}
    attemptCounts,     \* Map clientId -> {count, lastAttempt}
    generationCounts,  \* Map clientId -> {count, lastGeneration}
    req,               \* bag of the handler calls in flight: position and locals
    call,              \* unit driver: the limiter call just made, the count it found
                       \* (a sweep: the number of records it found) and its return value
    out,               \* http driver: the response just sent
    fresh,             \* history: record calls per key since the key had no record
    accepted,          \* history: accepted actions per key in the current window
    gen,               \* driver "template": the generateWithTemplate call just made
    ana,               \* driver "analysis": the text-analysis call just made
    auth,              \* driver "auth": the requireAuth / requireAdmin call just made
    sheets,            \* the spreadsheet: the rows of the sheets Users and
                       \* Submissions; history: the rows written
    sheetCall,         \* driver "sheet": the call just made against the
                       \* spreadsheet and its result
    twin               \* driver "twin": the submission table of the run in
                       \* which the sweep never executes

vars == <<endpoint, driver, env, now, submissionCounts, attemptCounts,
          generationCounts, req, call, out, fresh, accepted, gen, ana, auth,
          sheets, sheetCall, twin>>

\* ------------------------------------------------------------ Map helpers
EmptyMap == [k \in {} |-> [count |-> 0]]

MapDelete(map, k) == [x \in (DOMAIN map) \ {k} |-> map[x]]

MapSet(map, k, v) == [x \in (DOMAIN map) \cup {k} |-> IF x = k THEN v ELSE map[x]]

\* ------------------------------------------- submission limiter (part_000)
\* variant: a record is taken as expired once the window has elapsed (>=)
submit_isRateLimited_expiresAtWindow(map, clientId, t) ==
    IF clientId \notin DOMAIN map
    THEN [ret |-> FALSE, map |-> map]
    ELSE IF t - map[clientId].lastSubmission >= COOLDOWN_PERIOD
         THEN [ret |-> FALSE, map |-> MapDelete(map, clientId)]
         ELSE [ret |-> map[clientId].count >= MAX_SUBMISSIONS, map |-> map]

\* variant: the client is limited only above MAX_SUBMISSIONS
submit_isRateLimited_offByOne(map, clientId, t) ==
    IF clientId \notin DOMAIN map
    THEN [ret |-> FALSE, map |-> map]
    ELSE IF t - map[clientId].lastSubmission > COOLDOWN_PERIOD
         THEN [ret |-> FALSE, map |-> MapDelete(map, clientId)]
         ELSE [ret |-> map[clientId].count > MAX_SUBMISSIONS, map |-> map]

\* variant: the check refreshes the time stamp of a live record
submit_isRateLimited_touches(map, clientId, t) ==
    IF clientId \notin DOMAIN map
    THEN [ret |-> FALSE, map |-> map]
    ELSE IF t - map[clientId].lastSubmission > COOLDOWN_PERIOD
         THEN [ret |-> FALSE, map |-> MapDelete(map, clientId)]
         ELSE [ret |-> map[clientId].count >= MAX_SUBMISSIONS,
               map |-> MapSet(map, clientId,
                              [count |-> map[clientId].count, lastSubmission |-> t])]

\* isRateLimited: return value and the table it leaves
submit_isRateLimited(map, clientId, t) ==
    IF clientId \notin DOMAIN map
    THEN [ret |-> FALSE, map |-> map]
    ELSE IF t - map[clientId].lastSubmission > COOLDOWN_PERIOD
         THEN [ret |-> FALSE, map |-> MapDelete(map, clientId)]
         ELSE [ret |-> map[clientId].count >= MAX_SUBMISSIONS, map |-> map]

\* variant: the record is written anew on every call
recordSubmission_overwrites(map, clientId, t) ==
    MapSet(map, clientId, [count |-> 1, lastSubmission |-> t])

recordSubmission(map, clientId, t) ==
    LET submissions == IF clientId \in DOMAIN map
                       THEN map[clientId]
                       ELSE [count |-> 0, lastSubmission |-> 0]
    IN  MapSet(map, clientId,
               [count |-> submissions.count + 1, lastSubmission |-> t])

submit_sweep(map, t) ==
    [x \in {c \in DOMAIN map : ~(t - map[c].lastSubmission > COOLDOWN_PERIOD)}
        |-> map[x]]

\* ------------------------------------------------ login limiter (login.js)
\* variant: a check that finds the client locked out refreshes lastAttempt
login_isRateLimited_refreshes(map, clientId, t) ==
    IF clientId \notin DOMAIN map
    THEN [ret |-> FALSE, map |-> map]
    ELSE IF t - map[clientId].lastAttempt > LOCKOUT_DURATION
         THEN [ret |-> FALSE, map |-> MapDelete(map, clientId)]
         ELSE IF map[clientId].count >= MAX_ATTEMPTS
              THEN [ret |-> TRUE,
                    map |-> MapSet(map, clientId,
                                   [count |-> map[clientId].count, lastAttempt |-> t])]
              ELSE [ret |-> FALSE, map |-> map]

\* variant: a rejected attempt is counted as well
login_isRateLimited_counts(map, clientId, t) ==
    IF clientId \notin DOMAIN map
    THEN [ret |-> FALSE, map |-> map]
    ELSE IF t - map[clientId].lastAttempt > LOCKOUT_DURATION
         THEN [ret |-> FALSE, map |-> MapDelete(map, clientId)]
         ELSE IF map[clientId].count >= MAX_ATTEMPTS
              THEN [ret |-> TRUE,
                    map |-> MapSet(map, clientId,
                                   [count |-> map[clientId].count + 1, lastAttempt |-> t])]
              ELSE [ret |-> FALSE, map |-> map]

login_isRateLimited(map, clientId, t) ==
    IF clientId \notin DOMAIN map
    THEN [ret |-> FALSE, map |-> map]
    ELSE IF t - map[clientId].lastAttempt > LOCKOUT_DURATION
         THEN [ret |-> FALSE, map |-> MapDelete(map, clientId)]
         ELSE [ret |-> map[clientId].count >= MAX_ATTEMPTS, map |-> map]

recordFailedAttempt(map, clientId, t) ==
    LET attempts == IF clientId \in DOMAIN map
                    THEN map[clientId]
                    ELSE [count |-> 0, lastAttempt |-> 0]
    IN  MapSet(map, clientId,
               [count |-> attempts.count + 1, lastAttempt |-> t])

\* variant: attemptCounts.clear()
clearRateLimit_all(map, clientId) == [x \in {} |-> map[x]]

clearRateLimit(map, clientId) == MapDelete(map, clientId)

login_sweep(map, t) ==
    [x \in {c \in DOMAIN map : ~(t - map[c].lastAttempt > LOCKOUT_DURATION)}
        |-> map[x]]

\* ------------------------------------------- generation limiter (part_003)
\* variant: an expired record is reported as not limited but kept
generate_isRateLimited_keepsExpired(map, clientId, t) ==
    IF clientId \notin DOMAIN map
    THEN [ret |-> FALSE, map |-> map]
    ELSE IF t - map[clientId].lastGeneration > GENERATION_COOLDOWN
         THEN [ret |-> FALSE, map |-> map]
         ELSE [ret |-> map[clientId].count >= MAX_GENERATIONS, map |-> map]

generate_isRateLimited(map, clientId, t) ==
    IF clientId \notin DOMAIN map
    THEN [ret |-> FALSE, map |-> map]
    ELSE IF t - map[clientId].lastGeneration > GENERATION_COOLDOWN
         THEN [ret |-> FALSE, map |-> MapDelete(map, clientId)]
         ELSE [ret |-> map[clientId].count >= MAX_GENERATIONS, map |-> map]

\* variant: the time is stamped but the count is not incremented
recordGeneration_stampsOnly(map, clientId, t) ==
    LET generations == IF clientId \in DOMAIN map
                       THEN map[clientId]
                       ELSE [count |-> 1, lastGeneration |-> 0]
    IN  MapSet(map, clientId,
               [count |-> generations.count, lastGeneration |-> t])

recordGeneration(map, clientId, t) ==
    LET generations == IF clientId \in DOMAIN map
                       THEN map[clientId]
                       ELSE [count |-> 0, lastGeneration |-> 0]
    IN  MapSet(map, clientId,
               [count |-> generations.count + 1, lastGeneration |-> t])

\* variant: the sweep deletes a record once the window has elapsed (>=)
generate_sweep_expiresAtWindow(map, t) ==
    [x \in {c \in DOMAIN map : ~(t - map[c].lastGeneration >= GENERATION_COOLDOWN)}
        |-> map[x]]

generate_sweep(map, t) ==
    [x \in {c \in DOMAIN map : ~(t - map[c].lastGeneration > GENERATION_COOLDOWN)}
        |-> map[x]]

\* ---------------------------------------------- the limiter of an endpoint
MaxOf(e) == CASE e = "submit" -> MAX_SUBMISSIONS
              [] e = "login" -> MAX_ATTEMPTS
              [] OTHER -> MAX_GENERATIONS

WindowOf(e) == CASE e = "submit" -> COOLDOWN_PERIOD
                 [] e = "login" -> LOCKOUT_DURATION
                 [] OTHER -> GENERATION_COOLDOWN

TableOf(e) == CASE e = "submit" -> submissionCounts
                [] e = "login" -> attemptCounts
                [] OTHER -> generationCounts

LastOf(e, rec) == CASE e = "submit" -> rec.lastSubmission
                    [] e = "login" -> rec.lastAttempt
                    [] OTHER -> rec.lastGeneration

IsLimitedOf(e, k) == CASE e = "submit" -> submit_isRateLimited(submissionCounts, k, now)
                       [] e = "login" -> login_isRateLimited(attemptCounts, k, now)
                       [] OTHER -> generate_isRateLimited(generationCounts, k, now)

RecordOf(e, k) == CASE e = "submit" -> recordSubmission(submissionCounts, k, now)
                    [] e = "login" -> recordFailedAttempt(attemptCounts, k, now)
                    [] OTHER -> recordGeneration(generationCounts, k, now)

SweepOf(e) == CASE e = "submit" -> submit_sweep(submissionCounts, now)
                [] e = "login" -> login_sweep(attemptCounts, now)
                [] OTHER -> generate_sweep(generationCounts, now)

\* the count stored for key k, 0 when k has no record
CountOf(e, k) == IF k \in DOMAIN TableOf(e) THEN TableOf(e)[k].count ELSE 0

\* the endpoint's table becomes map, the other tables stay
SetTable(map) ==
    /\ submissionCounts' = IF endpoint = "submit" THEN map ELSE submissionCounts
    /\ attemptCounts' = IF endpoint = "login" THEN map ELSE attemptCounts
    /\ generationCounts' = IF endpoint = "generate" THEN map ELSE generationCounts

KeepTables == UNCHANGED <<submissionCounts, attemptCounts, generationCounts>>

\* --------------------------------------------------------- history variables
NoFresh == [n |-> 0, last |-> 0]

\* fresh[k].n counts the record calls made for k since k last had no record and
\* fresh[k].last is the time of the latest of them.  From history f, after a
\* limiter call that leaves table map, where rec is the key a record call was
\* made for ("" when none):
FreshFrom(f, map, rec) ==
    [k \in Keys |->
        IF k = rec
        THEN [n |-> f[k].n + 1, last |-> now]
        ELSE IF k \notin DOMAIN map THEN NoFresh
        ELSE f[k]]

FreshAfter(map, rec) == FreshFrom(fresh, map, rec)

\* accepted[k]: the number of accepted actions of key k (submissions appended
\* and answered 200; login attempts answered 401 INVALID_CREDENTIALS) since the
\* clock last advanced by a whole window (counted up to MaxOf(endpoint) + 1); the clock has
\* moved by at most MaxTicks milliseconds since, so all of them lie within one
\* interval of one window
AcceptedAfter(k) ==
    [accepted EXCEPT ![k] = IF @ > MaxOf(endpoint) THEN @ ELSE @ + 1]

\* ---------------------------------------------------------------- requests
NoCall == [op |-> "none", key |-> "", had |-> 0, ret |-> FALSE]

\* keys: which of the string fields error and code the JSON body carries;
\* session: the session the request came with ("" when the handler reads none);
\* type: the type of the body of a generation request that was answered by the
\* validation of the handler ("" in every other answer)
NoOut ==
    [method |-> "", key |-> "", status |-> 0, code |-> "", by |-> "", trace |-> <<>>,
     keys |-> {}, session |-> "", type |-> ""]

\* the body {error: '...', code: cd} of an answer with a code; the answers
\* without a code of the handlers that use Reply and Respond are the 200 ones
BodyKeys(cd) == IF cd = "" THEN {} ELSE {"error", "code"}

\* --------------------------------------------- the spreadsheet (part_006)
\* A sheet is the sequence of its rows, a row the sequence of its cells, a cell
\* a string.
MaxRows == 3

UsersHeader == <<"Email", "Password", "Role", "Name", "Created", "LastLogin", "Status">>

SubmissionsHeader ==
    <<"Full Name", "Email", "Major", "Business Name", "Business Description", "Timestamp">>

\* the spreadsheet with both sheets empty
NoSheets == [Users |-> <<>>, Submissions |-> <<>>, admins |-> {}, accepted |-> {}]

\* the spreadsheet before the first call: each sheet empty or with its header row
SheetInits ==
    [Users : {<<>>, <<UsersHeader>>}, Submissions : {<<>>, <<SubmissionsHeader>>},
     admins : {{}}, accepted : {{}}]

NoSheetCall ==
    [fn |-> "", email |-> "", password |-> "", limit |-> 0, status |-> 0, code |-> "",
     role |-> "", rows |-> <<>>]

\* String.prototype.trim on the strings of the model
TrimString(s) == IF s = " Ann " THEN "Ann" ELSE s

\* String.prototype.toLowerCase on the strings of the model
ToLower(s) ==
    CASE s = "Root@ACC.edu" -> "root@acc.edu"
      [] s = "Ann@ACC.edu" -> "ann@acc.edu"
      [] s = "Active" -> "active"
      [] s = "Admin User" -> "admin user"
      [] s = "Email" -> "email"
      [] OTHER -> s

\* new Date().toISOString()
Iso(t) == IF t = 0 THEN "2025-07-01" ELSE "2025-07-02"

\* new Date(timestamp) as a number (0: no date)
DateOf(ts) ==
    CASE ts = "2025-07-01" -> 1
      [] ts = "2025-07-02" -> 2
      [] OTHER -> 0

\* row[i - 1] || ''
Cell(row, i) == IF i <= Len(row) THEN row[i] ELSE ""

\* the last row of an open range such as 'Users!A2:G'
ToEnd == MaxRows + 1

\* lines 59-71: the rows first..last of a sheet
getSheetValues(rows, first, last) ==
    LET end == IF last < Len(rows) THEN last ELSE Len(rows)
    IN  IF end < first THEN <<>> ELSE SubSeq(rows, first, end)

\* lines 81-97: the row is written below the last row of the sheet
appendSheetValues(rows, values) == Append(rows, values)

\* the flags of process.env an endpoint reads: sheetId is GOOGLE_SHEET_ID, email
\* is the SendGrid key with the sender address, apiKey is ANTHROPIC_API_KEY,
\* logUsage is LOG_AI_USAGE
EnvOf(e) ==
    CASE e = "submit" ->
            {[sheetId |-> s, email |-> m, apiKey |-> FALSE, logUsage |-> FALSE]
                : s \in BOOLEAN, m \in BOOLEAN}
      [] e = "login" ->
            {[sheetId |-> s, email |-> FALSE, apiKey |-> FALSE, logUsage |-> FALSE]
                : s \in BOOLEAN}
      [] e = "generate" ->
            {[sheetId |-> TRUE, email |-> FALSE, apiKey |-> a, logUsage |-> l]
                : a \in BOOLEAN, l \in BOOLEAN}
      [] e = "participate" ->
            {[sheetId |-> TRUE, email |-> m, apiKey |-> FALSE, logUsage |-> FALSE]
                : m \in BOOLEAN}
      [] e = "coaching" ->
            {[sheetId |-> s, email |-> m, apiKey |-> FALSE, logUsage |-> FALSE]
                : s \in BOOLEAN, m \in BOOLEAN}
      [] e \in {"submissions", "lookup"} ->
            {[sheetId |-> s, email |-> FALSE, apiKey |-> FALSE, logUsage |-> FALSE]
                : s \in BOOLEAN}
      [] OTHER ->
            {[sheetId |-> TRUE, email |-> TRUE, apiKey |-> FALSE, logUsage |-> FALSE]}

InitOf(e, d) ==
    /\ endpoint = e
    /\ driver = d
    /\ env \in IF d \in {"unit", "template", "analysis", "auth", "sheet"}
               THEN {[sheetId |-> TRUE, email |-> FALSE, apiKey |-> FALSE, logUsage |-> FALSE]}
               ELSE EnvOf(e)
    /\ now = 0
    /\ submissionCounts = EmptyMap
    /\ attemptCounts = EmptyMap
    /\ generationCounts = EmptyMap
    /\ req = EmptyBag
    /\ call = NoCall
    /\ out = NoOut
    /\ fresh = [k \in Keys |-> NoFresh]
    /\ accepted = [k \in Keys |-> 0]
    /\ gen = [type |-> "", threw |-> FALSE, by |-> "", text |-> <<>>,
              inputs |-> [concept |-> "absent", problem |-> "absent", needs |-> "absent",
                          solution |-> "absent", funding |-> "absent"]]
    /\ ana = [fn |-> "", concept |-> {}, problem |-> {}, ret |-> ""]
    /\ auth = [fn |-> "",
               session |-> [user |-> FALSE, email |-> FALSE, age |-> "none", role |-> "none"],
               json |-> "", returns |-> "",
               sends |-> <<>>]
    /\ sheets \in IF d = "sheet" THEN SheetInits ELSE {NoSheets}
    /\ sheetCall = NoSheetCall
    /\ twin = EmptyMap

\* ------------------------------------------------------------------- clock
\* the clock advances by one millisecond or by one window of the endpoint
TicksUsed == (now \div WindowOf(endpoint)) + (now % WindowOf(endpoint))

Tick ==
    /\ driver \notin {"template", "analysis", "auth", "sheet"}
    /\ TicksUsed < MaxTicks
    /\ \E d \in {1, WindowOf(endpoint)} :
            /\ now' = now + d
            /\ accepted' = IF d = 1 THEN accepted ELSE [k \in Keys |-> 0]
    /\ call' = NoCall
    /\ out' = NoOut
    /\ UNCHANGED <<endpoint, driver, env, submissionCounts, attemptCounts,
                   generationCounts, req, fresh, gen, ana, auth,
                   sheets, sheetCall, twin>>

\* ------------------------------------------------- setInterval sweep (60 s)
Sweep ==
    /\ driver \notin {"template", "analysis", "auth", "sheet"}
    /\ endpoint \in Limited
    /\ SetTable(SweepOf(endpoint))
    /\ fresh' = FreshAfter(SweepOf(endpoint), "")
    /\ call' = IF driver = "unit"
               THEN [op |-> "sweep", key |-> "",
                     had |-> Cardinality(DOMAIN TableOf(endpoint)), ret |-> FALSE]
               ELSE NoCall
    /\ out' = NoOut
    /\ UNCHANGED <<endpoint, driver, env, now, req, accepted, gen, ana, auth,
                   sheets, sheetCall, twin>>

\* ------------------------------------------------------------- unit driver
\* bound on the count a direct record call may reach beyond the maximum
MaxExtra == 1

UnitIsRateLimited(k) ==
    /\ driver = "unit"
    /\ LET chk == IsLimitedOf(endpoint, k)
       IN  /\ SetTable(chk.map)
           /\ fresh' = FreshAfter(chk.map, "")
           /\ call' = [op |-> "isRateLimited", key |-> k, had |-> CountOf(endpoint, k),
                      ret |-> chk.ret]
    /\ UNCHANGED <<endpoint, driver, env, now, req, out, accepted, gen, ana, auth,
                   sheets, sheetCall, twin>>

UnitRecord(k) ==
    /\ driver = "unit"
    /\ k \in DOMAIN TableOf(endpoint) =>
            TableOf(endpoint)[k].count < MaxOf(endpoint) + MaxExtra
    /\ SetTable(RecordOf(endpoint, k))
    /\ fresh' = FreshAfter(RecordOf(endpoint, k), k)
    /\ call' = [op |-> "record", key |-> k, had |-> CountOf(endpoint, k), ret |-> FALSE]
    /\ UNCHANGED <<endpoint, driver, env, now, req, out, accepted, gen, ana, auth,
                   sheets, sheetCall, twin>>

UnitClear(k) ==
    /\ driver = "unit"
    /\ endpoint = "login"
    /\ SetTable(clearRateLimit(attemptCounts, k))
    /\ fresh' = FreshAfter(clearRateLimit(attemptCounts, k), "")
    /\ call' = [op |-> "clear", key |-> k, had |-> CountOf(endpoint, k), ret |-> FALSE]
    /\ UNCHANGED <<endpoint, driver, env, now, req, out, accepted, gen, ana, auth,
                   sheets, sheetCall, twin>>

\* ------------------------------------------------------------ http driver
\* A handler call is modelled in two actions.  The first runs the handler up to
\* its first collaborator call (method check, validation, rate-limit check); the
\* second runs the rest once the collaborator calls have settled.  The awaits in
\* between (sheets, e-mail, AI service, bcrypt, session) touch no module state,
\* so their outcomes are chosen when the second action runs; other requests,
\* the sweep and the clock interleave between the two.
\* a new request can be taken
Free == driver \in {"http", "twin"} /\ BagCardinality(req) < MaxReq

\* the arriving request ends with res.status(st).json({code: cd, ...})
Reply(m, k, st, cd, tr) ==
    /\ UNCHANGED req
    /\ out' = [method |-> m, key |-> k, status |-> st, code |-> cd, by |-> "",
               trace |-> tr, keys |-> BodyKeys(cd), session |-> "", type |-> ""]

\* the arriving request waits for its collaborator calls
Await(q) ==
    /\ req' = req (+) SetToBag({q})
    /\ out' = NoOut

\* the request q in flight ends with res.status(st).json({code: cd, ...});
\* by is metadata.generatedBy
Respond(q, st, cd, by, tr) ==
    /\ req' = req (-) SetToBag({q})
    /\ out' = [method |-> "POST", key |-> q.key, status |-> st, code |-> cd,
               by |-> by, trace |-> tr, keys |-> BodyKeys(cd), session |-> "", type |-> ""]

NoHistory == UNCHANGED <<fresh, accepted>>

Frame ==
    /\ UNCHANGED <<endpoint, driver, env, now, call, gen, ana, auth, sheets, sheetCall>>
    /\ IF driver = "twin" THEN TRUE ELSE UNCHANGED twin

\* --------------------------------------------------- submitHandler (part_000)
\* the requests sent to the endpoint: method and shape of the body ("none": no
\* body; "missing": a required field is empty; "bademail": the e-mail fails the
\* regular expression; "ok": five non-empty strings)
SubmitRequests ==
    {<<"GET", "ok">>, <<"POST", "none">>, <<"POST", "missing">>,
     <<"POST", "bademail">>, <<"POST", "ok">>}

\* lines 105-149: method check, validation, rate-limit check, createSheetsClient()
SubmitStart(method, body, k) ==
    /\ endpoint = "submit"
    /\ Free
    /\ LET chk == submit_isRateLimited(submissionCounts, k, now)
       IN  \/ /\ method # "POST"
              /\ Reply(method, "", 405, "METHOD_NOT_ALLOWED", <<>>)
              /\ KeepTables /\ NoHistory
           \/ /\ method = "POST" /\ body = "none"
              /\ Reply(method, "", 500, "SUBMISSION_ERROR", <<>>)
              /\ KeepTables /\ NoHistory
           \/ /\ method = "POST" /\ body = "missing"
              /\ Reply(method, "", 400, "MISSING_FIELDS", <<>>)
              /\ KeepTables /\ NoHistory
           \/ /\ method = "POST" /\ body = "bademail"
              /\ Reply(method, "", 400, "INVALID_EMAIL", <<>>)
              /\ KeepTables /\ NoHistory
           \/ /\ method = "POST" /\ body = "ok"
              /\ SetTable(chk.map)
              /\ fresh' = FreshAfter(chk.map, "")
              /\ UNCHANGED accepted
              /\ IF chk.ret
                 THEN Reply(method, k, 429, "RATE_LIMITED", <<"check">>)
                 ELSE Await([key |-> k, pc |-> "client", throws |-> FALSE,
                             trace |-> <<"check", "client">>])
    /\ Frame

\* how the collaborator calls of a submission settle: createSheetsClient()
\* rejects, appendSheetValues() rejects, sgMail.send() rejects, or none does
SubmitOutcomes == {"clientFail", "appendFail", "emailFail", "ok"}

\* variant: recordSubmission(clientId) is called before appendSheetValues()
SubmitSettle_recordsFirst(q, o) ==
    /\ endpoint = "submit"
    /\ q \in BagToSet(req)
    /\ o = "emailFail" => env.sheetId /\ env.email
    /\ IF o = "clientFail"
       THEN /\ Respond(q, 500, "SUBMISSION_ERROR", "", q.trace \o <<"clientFail">>)
            /\ KeepTables /\ NoHistory
       ELSE IF ~env.sheetId
       THEN /\ Respond(q, 500, "CONFIG_ERROR", "", q.trace \o <<"clientOK">>)
            /\ KeepTables /\ NoHistory
       ELSE /\ SetTable(recordSubmission(submissionCounts, q.key, now))
            /\ fresh' = FreshAfter(recordSubmission(submissionCounts, q.key, now), q.key)
            /\ IF o = "appendFail"
               THEN /\ UNCHANGED accepted
                    /\ Respond(q, 500, "SUBMISSION_ERROR", "",
                               q.trace \o <<"clientOK", "record", "append", "appendFail">>)
               ELSE /\ accepted' = AcceptedAfter(q.key)
                    /\ Respond(q, 200, "", "",
                               q.trace \o <<"clientOK", "record", "append", "appendOK">>
                                 \o (IF env.email
                                     THEN <<"email", IF o = "emailFail" THEN "emailFail"
                                                     ELSE "emailOK">>
                                     ELSE <<>>))
    /\ Frame

\* lines 149-210: createSheetsClient() settled, GOOGLE_SHEET_ID, appendSheetValues()
\* settled, sendConfirmationEmail() settled when configured,
\* recordSubmission(clientId), response
SubmitSettle(q, o) ==
    /\ endpoint = "submit"
    /\ q \in BagToSet(req)
    /\ o = "emailFail" => env.sheetId /\ env.email
    /\ IF o = "clientFail"
       THEN /\ Respond(q, 500, "SUBMISSION_ERROR", "", q.trace \o <<"clientFail">>)
            /\ KeepTables /\ NoHistory
       ELSE IF ~env.sheetId
       THEN /\ Respond(q, 500, "CONFIG_ERROR", "", q.trace \o <<"clientOK">>)
            /\ KeepTables /\ NoHistory
       ELSE IF o = "appendFail"
       THEN /\ Respond(q, 500, "SUBMISSION_ERROR", "",
                       q.trace \o <<"clientOK", "append", "appendFail">>)
            /\ KeepTables /\ NoHistory
       ELSE /\ SetTable(recordSubmission(submissionCounts, q.key, now))
            /\ fresh' = FreshAfter(recordSubmission(submissionCounts, q.key, now), q.key)
            /\ accepted' = AcceptedAfter(q.key)
            /\ Respond(q, 200, "", "",
                    q.trace \o <<"clientOK", "append", "appendOK">>
                      \o (IF env.email
                          THEN <<"email", IF o = "emailFail" THEN "emailFail" ELSE "emailOK">>
                          ELSE <<>>)
                      \o <<"record">>)
    /\ Frame

\* the handler with the table of the run without sweep kept beside it: the
\* rate-limit check (lines 133-140) and recordSubmission (line 191) act on
\* both tables
TwinStart(method, body, k) ==
    /\ driver = "twin"
    /\ SubmitStart(method, body, k)
    /\ twin' = IF method = "POST" /\ body = "ok"
               THEN submit_isRateLimited(twin, k, now).map
               ELSE twin

TwinSettle(q, o) ==
    /\ driver = "twin"
    /\ SubmitSettle(q, o)
    /\ twin' = IF env.sheetId /\ o \notin {"clientFail", "appendFail"}
               THEN recordSubmission(twin, q.key, now)
               ELSE twin

\* ------------------------------------------------- loginHandler (login.js)
\* the requests sent to the endpoint: method and shape of the body ("none": no
\* body; "missing": e-mail or password is empty; "bademail": the e-mail fails
\* the regular expression)
LoginRequests ==
    {<<"GET", "ok">>, <<"POST", "none">>, <<"POST", "missing">>,
     <<"POST", "bademail">>, <<"POST", "ok">>}

\* lines 24-63: method check, validation, rate-limit check, createSheetsClient()
LoginStart(method, body, k) ==
    /\ endpoint = "login"
    /\ Free
    /\ LET chk == login_isRateLimited(attemptCounts, k, now)
       IN  \/ /\ method # "POST"
              /\ Reply(method, "", 405, "METHOD_NOT_ALLOWED", <<>>)
              /\ KeepTables /\ NoHistory
           \/ /\ method = "POST" /\ body = "none"
              /\ Reply(method, "", 500, "SERVER_ERROR", <<>>)
              /\ KeepTables /\ NoHistory
           \/ /\ method = "POST" /\ body = "missing"
              /\ Reply(method, "", 400, "MISSING_CREDENTIALS", <<>>)
              /\ KeepTables /\ NoHistory
           \/ /\ method = "POST" /\ body = "bademail"
              /\ Reply(method, "", 400, "INVALID_EMAIL", <<>>)
              /\ KeepTables /\ NoHistory
           \/ /\ method = "POST" /\ body = "ok"
              /\ SetTable(chk.map)
              /\ fresh' = FreshAfter(chk.map, "")
              /\ UNCHANGED accepted
              /\ IF chk.ret
                 THEN Reply(method, k, 429, "RATE_LIMITED", <<"check">>)
                 ELSE Await([key |-> k, pc |-> "client", throws |-> FALSE,
                             trace |-> <<"check", "client">>])
    /\ Frame

\* how the collaborator calls of a login settle: createSheetsClient() rejects,
\* findUserByEmail() rejects / finds no user / finds an inactive user,
\* bcrypt.compare() rejects / answers false, loginUser() rejects,
\* updateUserLastLogin() fails, or none of these
LoginOutcomes ==
    {"clientFail", "findFail", "notFound", "inactive", "compareFail", "noMatch",
     "sessionFail", "lastLoginFail", "ok"}

\* the calls made on outcome o once createSheetsClient() has resolved
LoginCalls(o) ==
    <<"clientOK">> \o
    CASE o = "findFail" -> <<"find", "findFail">>
      [] o = "notFound" -> <<"find", "record">>
      [] o = "inactive" -> <<"find">>
      [] o = "compareFail" -> <<"find", "compare", "compareFail">>
      [] o = "noMatch" -> <<"find", "compare", "record">>
      [] o = "sessionFail" -> <<"find", "compare", "session", "sessionFail">>
      [] o = "lastLoginFail" ->
            <<"find", "compare", "session", "lastLogin", "lastLoginFail", "clear">>
      [] OTHER -> <<"find", "compare", "session", "lastLogin", "lastLoginOK", "clear">>

\* lines 63-144: createSheetsClient() settled, GOOGLE_SHEET_ID, findUserByEmail(),
\* account status, bcrypt.compare(), loginUser(), updateUserLastLogin() (not
\* awaited), clearRateLimit(clientId), response
LoginSettleCalls(q, o) ==
    /\ endpoint = "login"
    /\ q \in BagToSet(req)
    /\ IF o = "clientFail"
       THEN /\ Respond(q, 500, "SERVER_ERROR", "", q.trace \o <<"clientFail">>)
            /\ KeepTables /\ UNCHANGED fresh
       ELSE IF ~env.sheetId
       THEN /\ Respond(q, 500, "CONFIG_ERROR", "", q.trace \o <<"clientOK">>)
            /\ KeepTables /\ UNCHANGED fresh
       ELSE IF o \in {"findFail", "compareFail", "sessionFail"}
       THEN /\ Respond(q, 500, "SERVER_ERROR", "", q.trace \o LoginCalls(o))
            /\ KeepTables /\ UNCHANGED fresh
       ELSE IF o = "inactive"
       THEN /\ Respond(q, 401, "ACCOUNT_INACTIVE", "", q.trace \o LoginCalls(o))
            /\ KeepTables /\ UNCHANGED fresh
       ELSE IF o \in {"notFound", "noMatch"}
       THEN /\ SetTable(recordFailedAttempt(attemptCounts, q.key, now))
            /\ fresh' = FreshAfter(recordFailedAttempt(attemptCounts, q.key, now), q.key)
            /\ Respond(q, 401, "INVALID_CREDENTIALS", "", q.trace \o LoginCalls(o))
       ELSE /\ SetTable(clearRateLimit(attemptCounts, q.key))
            /\ fresh' = FreshAfter(clearRateLimit(attemptCounts, q.key), "")
            /\ Respond(q, 200, "", "", q.trace \o LoginCalls(o))
    /\ Frame

\* the handler, the history of failed attempts not kept
LoginSettle(q, o) ==
    /\ LoginSettleCalls(q, o)
    /\ UNCHANGED accepted

\* the client whose failed attempts are kept in the history (the clients are
\* interchangeable: the handler treats every x-forwarded-for value alike)
WatchedKey == "ip1"

\* the handler with the history of its 401 INVALID_CREDENTIALS answers to the
\* watched client kept: lines 77-84 (user not found) and 98-105 (password
\* mismatch)
LoginSettleCounted(q, o) ==
    /\ LoginSettleCalls(q, o)
    /\ accepted' = IF o \in {"notFound", "noMatch"} /\ env.sheetId /\ q.key = WatchedKey
                   THEN AcceptedAfter(q.key)
                   ELSE accepted

\* --------------------------------------- claudeGenerateHandler (part_003)
\* A field of inputs is "absent" (undefined, null, ""), "text" (a non-blank
\* string) or "other" (a truthy value that is no string: a number, an object).
\* lines 329-334: input.trim() is called on every truthy input
sanitizeAndEnhanceInput_throws(input) == input = "other"

\* lines 345-347: concept.toLowerCase()
generateIntelligentSolution_throws(concept) == concept = "other"

\* lines 279-289: the three inputs are sanitized first; what follows works on
\* the strings sanitizeAndEnhanceInput returned
generateBusinessDescriptionTemplate_throws(inputs) ==
    \/ sanitizeAndEnhanceInput_throws(inputs.concept)
    \/ sanitizeAndEnhanceInput_throws(inputs.problem)
    \/ sanitizeAndEnhanceInput_throws(inputs.needs)

\* lines 653-657 and 760-764: inputs.solution || generateSolutionFromConcept(
\* inputs.concept || '[Business concept]', ...)
generateExecutiveSummaryTemplate_throws(inputs) ==
    /\ inputs.solution = "absent"
    /\ generateIntelligentSolution_throws(inputs.concept)

\* lines 254-274: generateWithTemplate(type, inputs) throws
generateWithTemplate_throws(type, inputs) ==
    CASE type = "business_description" -> generateBusinessDescriptionTemplate_throws(inputs)
      [] type = "pitch_outline" -> FALSE
      [] type = "executive_summary" -> generateExecutiveSummaryTemplate_throws(inputs)
      [] type = "presentation_slides" -> generateExecutiveSummaryTemplate_throws(inputs)
      [] OTHER -> FALSE

validTypes ==
    {"business_description", "pitch_outline", "executive_summary", "presentation_slides"}

\* the inputs objects sent: {}, three strings, a number as concept, a number as
\* concept beside a solution, a number as needs
InputSamples ==
    {[concept |-> "absent", problem |-> "absent", needs |-> "absent", solution |-> "absent"],
     [concept |-> "text", problem |-> "text", needs |-> "text", solution |-> "absent"],
     [concept |-> "other", problem |-> "text", needs |-> "text", solution |-> "absent"],
     [concept |-> "other", problem |-> "text", needs |-> "absent", solution |-> "text"],
     [concept |-> "text", problem |-> "text", needs |-> "other", solution |-> "absent"]}

\* the body has no inputs
NoInputs ==
    [concept |-> "none", problem |-> "none", needs |-> "none", solution |-> "none"]

\* the one client key whose requests the generation endpoint is sent
GenerateKeys == {"ip1"}

\* ai-coach.js 12, 137-151: the object the AI-coach page collects has the
\* fields studentName, studentEmail, studentMajor, businessIdea,
\* problemDescription, solutionDescription and fundingNeeds, and none of the
\* fields the generator reads
studentData ==
    [concept |-> "absent", problem |-> "absent", needs |-> "absent", solution |-> "absent"]

\* ai-coach.js 171-180: the request generateContent() sends
CoachRequest == <<"POST", "presentation_coaching", studentData>>

\* ai-coach.js 182-236: what generateContent() does with the answer: it shows
\* the generated content, or falls into generateFallbackContent() when the
\* status is not 2xx or the answer has no content
generateContent(response) ==
    IF response.status < 200 \/ response.status > 299 THEN "fallback"
    ELSE IF response.by = "" THEN "fallback"
    ELSE "generated"

\* the requests sent to the endpoint: method, type ("none": no type; "bogus":
\* not one of validTypes; "nobody": the request has no body) and inputs
GenerateRequests ==
    {<<"OPTIONS", "none", NoInputs>>, <<"GET", "none", NoInputs>>,
     <<"POST", "nobody", NoInputs>>, <<"POST", "none", NoInputs>>,
     <<"POST", "pitch_outline", NoInputs>>}
    \cup {<<"POST", "bogus", i>> : i \in InputSamples}
    \cup {CoachRequest}
    \cup {<<"POST", t, i>> : t \in validTypes, i \in InputSamples}

\* the handler waits for the AI service or for the usage log
GenerateWaits == env.apiKey \/ (env.sheetId /\ env.logUsage)

\* lines 46-63: the validation answers a request of this type with 400
Refuse(type, cd) ==
    /\ UNCHANGED req
    /\ out' = [method |-> "POST", key |-> "", status |-> 400, code |-> cd, by |-> "",
               trace |-> <<>>, keys |-> BodyKeys(cd), session |-> "", type |-> type]

\* lines 29-97: method checks, validation, rate-limit check; without an API key
\* the template generator runs at once, and without usage logging the request
\* is recorded and answered at once (lines 112-123)
GenerateStart(method, type, inputs, k) ==
    /\ endpoint = "generate"
    /\ Free
    /\ LET chk == generate_isRateLimited(generationCounts, k, now)
           throws == generateWithTemplate_throws(type, inputs)
       IN  \/ /\ method = "OPTIONS"
              /\ Reply(method, "", 200, "", <<>>)
              /\ KeepTables /\ NoHistory
           \/ /\ method \notin {"OPTIONS", "POST"}
              /\ Reply(method, "", 405, "METHOD_NOT_ALLOWED", <<>>)
              /\ KeepTables /\ NoHistory
           \/ /\ method = "POST" /\ type = "nobody"
              /\ Reply(method, "", 500, "GENERATION_ERROR", <<>>)
              /\ KeepTables /\ NoHistory
           \/ /\ method = "POST" /\ type # "nobody"
              /\ type = "none" \/ inputs = NoInputs
              /\ Refuse(type, "MISSING_FIELDS")
              /\ KeepTables /\ NoHistory
           \/ /\ method = "POST" /\ type \notin validTypes \cup {"none", "nobody"}
              /\ inputs # NoInputs
              /\ Refuse(type, "INVALID_TYPE")
              /\ KeepTables /\ NoHistory
           \/ /\ method = "POST" /\ type \in validTypes /\ inputs # NoInputs
              /\ IF chk.ret
                 THEN /\ SetTable(chk.map)
                      /\ fresh' = FreshAfter(chk.map, "")
                      /\ UNCHANGED accepted
                      /\ Reply(method, k, 429, "RATE_LIMITED", <<"check">>)
                 ELSE IF env.apiKey
                 THEN /\ SetTable(chk.map)
                      /\ fresh' = FreshAfter(chk.map, "")
                      /\ UNCHANGED accepted
                      /\ Await([key |-> k, pc |-> "ai", throws |-> throws,
                                trace |-> <<"check", "ai">>])
                 ELSE IF throws
                 THEN /\ SetTable(chk.map)
                      /\ fresh' = FreshAfter(chk.map, "")
                      /\ UNCHANGED accepted
                      /\ Reply(method, k, 500, "GENERATION_ERROR",
                               <<"check", "noKey", "template", "templateThrew">>)
                 ELSE IF GenerateWaits
                 THEN /\ SetTable(chk.map)
                      /\ fresh' = FreshAfter(chk.map, "")
                      /\ UNCHANGED accepted
                      /\ Await([key |-> k, pc |-> "log", throws |-> FALSE,
                                trace |-> <<"check", "noKey", "template",
                                            "generated", "log">>])
                 ELSE /\ SetTable(recordGeneration(chk.map, k, now))
                      /\ fresh' = FreshFrom(FreshFrom(fresh, chk.map, ""),
                                            recordGeneration(chk.map, k, now), k)
                      /\ accepted' = AcceptedAfter(k)
                      /\ UNCHANGED req
                      /\ out' = [method |-> "POST", key |-> k, status |-> 200,
                                 code |-> "", by |-> "template",
                                 trace |-> <<"check", "noKey", "template",
                                             "generated", "record">>,
                                 keys |-> {}, session |-> "", type |-> ""]
    /\ Frame

\* how the call of the AI service settles (lines 151-174): "aiOK": a 2xx answer
\* with content[0].text; "aiNoText": a 2xx answer whose content[0] has no text;
\* "netErr": fetch rejects; "non2xx": response.ok is false; "badJson":
\* response.json() rejects; "noContent": the body has no content[0]
AIOutcomes == {"aiOK", "aiNoText", "netErr", "non2xx", "badJson", "noContent"}

\* generateWithClaudeAPI returned (did not throw)
AIReturned(a) == a \in {"aiOK", "aiNoText"}

\* how logAIUsage settles (lines 952-979)
LogOutcomes == {"logOK", "logFail"}

\* lines 86-132: the AI service answered; template generator on failure; usage
\* log when configured; recordGeneration(clientId); response
GenerateSettle(q, a, l) ==
    /\ endpoint = "generate"
    /\ q \in BagToSet(req)
    /\ q.pc = "log" => a = "aiOK"
    /\ ~(env.sheetId /\ env.logUsage) => l = "logOK"
    /\ LET generated ==
               IF q.pc = "log" THEN q.trace
               ELSE IF AIReturned(a) THEN q.trace \o <<a, "generated">>
               ELSE q.trace \o <<a, "template", "generated">>
           logged ==
               IF q.pc = "log" THEN <<l>>
               ELSE IF env.sheetId /\ env.logUsage THEN <<"log", l>>
               ELSE <<>>
       IN  IF q.pc = "ai" /\ ~AIReturned(a) /\ q.throws
           THEN /\ Respond(q, 500, "GENERATION_ERROR", "",
                           q.trace \o <<a, "template", "templateThrew">>)
                /\ KeepTables /\ NoHistory
           ELSE /\ SetTable(recordGeneration(generationCounts, q.key, now))
                /\ fresh' = FreshAfter(recordGeneration(generationCounts, q.key, now), q.key)
                /\ accepted' = AcceptedAfter(q.key)
                /\ Respond(q, 200, "",
                           IF q.pc = "ai" /\ AIReturned(a) THEN "claude-api" ELSE "template",
                           generated \o logged \o <<"record">>)
    /\ Frame

\* ------------------------------------------ template generator (part_003)
\* The text a generator returns is the sequence of its parts: section headers,
\* fixed paragraphs (named in parentheses), the literal placeholders of the
\* source (in square brackets) and the values taken from inputs.  A value is
\* written as its class: "absent", "text" and "other" as above, "blank" (only
\* whitespace), "test", "hasTest" (a string such as 'latest fashion app', with
\* the letters test inside) and "padded" ("text" with whitespace around it).
FieldValues == {"absent", "blank", "test", "hasTest", "padded", "text", "other"}

\* !input is false
Truthy(v) == v # "absent"

\* input.trim(): "" stands for the empty string
Trim(v) == CASE v = "padded" -> "text"
             [] v = "blank" -> ""
             [] OTHER -> v

\* input.toLowerCase().includes('test')
IncludesTest(v) == v \in {"test", "hasTest"}

\* inputs[f]: undefined when inputs has no key f
Get(inputs, f) == IF f \in DOMAIN inputs THEN inputs[f] ELSE "absent"

\* lines 336-343
generatePlaceholderContent(inputType) ==
    CASE inputType = "business concept" ->
            "innovative digital platform that connects students with local businesses for real-world learning opportunities"
      [] inputType = "problem statement" ->
            "students struggle to gain practical experience while businesses need fresh perspectives and affordable help"
      [] OTHER ->
            "seed funding to develop the platform, hire developers, and launch marketing campaigns"

\* lines 329-334, for an input on which trim() does not throw
sanitizeAndEnhanceInput(input, inputType) ==
    IF ~Truthy(input) \/ Trim(input) = "" \/ IncludesTest(input)
    THEN generatePlaceholderContent(inputType)
    ELSE Trim(input)

\* lines 345-363: each of the five paragraphs splices ${problem} in
generateIntelligentSolution(concept, problem) ==
    <<"(solution paragraph, first part)", problem, "(solution paragraph, second part)">>

\* line 571
generateSolutionFromConcept(concept, problem) == generateIntelligentSolution(concept, problem)

\* lines 279-326
generateBusinessDescriptionTemplate(inputs) ==
    LET concept == sanitizeAndEnhanceInput(Get(inputs, "concept"), "business concept")
        problem == sanitizeAndEnhanceInput(Get(inputs, "problem"), "problem statement")
        needs == sanitizeAndEnhanceInput(Get(inputs, "needs"), "funding/resource needs")
    IN  <<"BUSINESS CONCEPT", concept, "(contextual intro)",
          "THE PROBLEM WE'RE SOLVING", problem, "(problem analysis)",
          "OUR SOLUTION">>
        \o generateIntelligentSolution(concept, problem)
        \o <<"(solution details)",
             "MARKET OPPORTUNITY", "(market analysis)",
             "COMPETITIVE ADVANTAGE", "(advantages)",
             "WHAT WE'RE SEEKING", needs, "(funding strategy)",
             "REVENUE MODEL", "(revenue model)",
             "NEXT STEPS", "(action plan)", "(closing statement)",
             "Ready to turn this vision into reality at NEST FEST!">>

\* inputs[f] || fallback
OrElse(inputs, f, fallback) == IF Truthy(Get(inputs, f)) THEN Get(inputs, f) ELSE fallback

\* lines 575-651
generatePitchOutlineTemplate(inputs) ==
    <<"NEST FEST PITCH OUTLINE (5 minutes)",
      "1. HOOK & PROBLEM (45 seconds)", "- Start with:",
      OrElse(inputs, "problem", "[Problem description]"), "(hook lines)",
      "2. SOLUTION INTRODUCTION (60 seconds)", "- Introduce your concept:",
      OrElse(inputs, "concept", "[Your business concept]"), "(solution lines)",
      "3. MARKET OPPORTUNITY (45 seconds)", "- Target market:",
      OrElse(inputs, "market", "individuals and businesses facing this challenge"),
      "(market lines)",
      "4. PRODUCT DEMONSTRATION (90 seconds)", "(demonstration lines)",
      "5. BUSINESS MODEL & TRACTION (45 seconds)", "(business model lines)",
      "6. COMPETITIVE ADVANTAGE (30 seconds)", "- What makes you different:",
      OrElse(inputs, "advantage", "innovative approach and superior execution"),
      "(advantage lines)",
      "7. FUNDING REQUEST & USE (30 seconds)", "- Amount seeking:",
      OrElse(inputs, "funding", "[Amount needed]"), "(use of funds lines)",
      "8. CALL TO ACTION (15 seconds)", "(call to action lines)",
      "DELIVERY TIPS:", "(delivery tips)",
      "SUCCESS METRICS:", "(success metrics)">>

\* lines 653-758, when generateSolutionFromConcept does not throw
generateExecutiveSummaryTemplate(inputs) ==
    LET concept == OrElse(inputs, "concept", "[Business concept]")
        problem == OrElse(inputs, "problem", "[Problem description]")
        solution == IF Truthy(Get(inputs, "solution")) THEN <<Get(inputs, "solution")>>
                    ELSE generateSolutionFromConcept(concept, problem)
    IN  <<"EXECUTIVE SUMMARY",
          "COMPANY OVERVIEW", OrElse(inputs, "businessName", "[Business Name]"),
          "is an innovative startup focused on", concept, "(overview sentence)",
          "PROBLEM & MARKET OPPORTUNITY", problem, "(opportunity paragraph)",
          "Target Market:", OrElse(inputs, "market", "[Target market and size]"),
          "(market size lines)",
          "SOLUTION & VALUE PROPOSITION">>
        \o solution
        \o <<"(solution benefits)",
             "COMPETITIVE ADVANTAGE", OrElse(inputs, "advantage", "[Competitive advantage]"),
             "(differentiators)",
             "BUSINESS MODEL & REVENUE STREAMS", "(revenue sources)",
             "FINANCIAL PROJECTIONS", OrElse(inputs, "financials", "[Financial projections]"),
             "(projections)",
             "TEAM & EXECUTION", "(team lines)",
             "FUNDING REQUEST", OrElse(inputs, "funding", "[Funding amount]"),
             "(use of funds)",
             "INVESTMENT OPPORTUNITY", "(opportunity lines)",
             "NEXT STEPS", "(next steps)",
             "Contact:", "[Contact Information]",
             "Website:", "[Website URL]",
             "Email:", "[Email Address]">>

\* lines 760-894, when generateSolutionFromConcept does not throw
generatePresentationSlidesTemplate(inputs) ==
    LET concept == OrElse(inputs, "concept", "[Business concept]")
        problem == OrElse(inputs, "problem", "[Problem description]")
        solution == IF Truthy(Get(inputs, "solution")) THEN <<Get(inputs, "solution")>>
                    ELSE generateSolutionFromConcept(concept, problem)
    IN  <<"NEST FEST PRESENTATION SLIDES",
          "SLIDE 1: TITLE SLIDE", "- Company name:",
          OrElse(inputs, "businessName", "[Business Name]"),
          "- Tagline:", "[Compelling one-liner about your solution]", "(title lines)",
          "SLIDE 2: THE PROBLEM", "- Main point:", problem, "(problem lines)",
          "SLIDE 3: MARKET OPPORTUNITY", "(market lines)",
          "SLIDE 4: OUR SOLUTION", "- Main concept:", concept, "- How it works:">>
        \o solution
        \o <<"(solution lines)",
             "SLIDE 5: PRODUCT DEMO", "(demo lines)",
             "SLIDE 6: BUSINESS MODEL", "(business model lines)",
             "SLIDE 7: COMPETITIVE ADVANTAGE", "(advantage lines)",
             "SLIDE 8: TRACTION & VALIDATION", "(traction lines)",
             "SLIDE 9: FINANCIAL PROJECTIONS", "(projection lines)",
             "SLIDE 10: TEAM", "(team lines)",
             "SLIDE 11: FUNDING REQUEST", "- Amount seeking:",
             OrElse(inputs, "funding", "[Amount needed]"), "(funding lines)",
             "SLIDE 12: CALL TO ACTION", "(call to action lines)",
             "PRESENTATION TIPS:", "(presentation tips)",
             "APPENDIX SLIDES (Have Ready):", "(appendix list)">>

\* variant: the generic template starts with the business concept
generateGenericTemplate_noOverview(inputs) ==
    <<"PROFESSIONAL BUSINESS CONTENT",
      "BUSINESS CONCEPT", OrElse(inputs, "concept", "[Business concept]"),
      "(approach sentence)">>

\* lines 896-947
generateGenericTemplate(inputs) ==
    LET concept == OrElse(inputs, "concept", "[Business concept]")
    IN  <<"PROFESSIONAL BUSINESS CONTENT",
          "OVERVIEW", "Based on your input, here's a comprehensive business overview for",
          concept,
          "BUSINESS CONCEPT", concept, "(approach sentence)",
          "CHALLENGE ADDRESSED", OrElse(inputs, "problem", "[Problem description]"),
          "(opportunity sentence)",
          "KEY ELEMENTS", "(one line for every entry of inputs)",
          "STRATEGIC APPROACH", "(approach list)",
          "VALUE PROPOSITION", "(value sentence)",
          "RESOURCE REQUIREMENTS", OrElse(inputs, "needs", "[Funding/resources needed]"),
          "(resources sentence)",
          "NEXT STEPS", "(next steps)", "(closing sentence)",
          "Ready to turn this vision into reality at NEST FEST!">>

\* lines 254-274: threw tells that the call threw, text and by are the string
\* returned and the generator that made it
generateWithTemplate(type, inputs) ==
    IF generateWithTemplate_throws(type, inputs)
    THEN [threw |-> TRUE, by |-> "", text |-> <<>>]
    ELSE CASE type = "business_description" ->
                [threw |-> FALSE, by |-> "generateBusinessDescriptionTemplate",
                 text |-> generateBusinessDescriptionTemplate(inputs)]
           [] type = "pitch_outline" ->
                [threw |-> FALSE, by |-> "generatePitchOutlineTemplate",
                 text |-> generatePitchOutlineTemplate(inputs)]
           [] type = "executive_summary" ->
                [threw |-> FALSE, by |-> "generateExecutiveSummaryTemplate",
                 text |-> generateExecutiveSummaryTemplate(inputs)]
           [] type = "presentation_slides" ->
                [threw |-> FALSE, by |-> "generatePresentationSlidesTemplate",
                 text |-> generatePresentationSlidesTemplate(inputs)]
           [] OTHER ->
                [threw |-> FALSE, by |-> "generateGenericTemplate",
                 text |-> generateGenericTemplate(inputs)]

\* the inputs mappings the generator is called with; all "absent" is {}
TemplateInputs ==
    [concept : FieldValues, problem : FieldValues, needs : FieldValues,
     solution : {"absent", "text"}, funding : {"absent", "text"}]

\* the type values the generator is called with
TemplateTypes == validTypes \cup {"bogus"}

\* a direct call generateWithTemplate(type, inputs); the generator keeps no
\* state, so one call is made in a behaviour
CallGenerateWithTemplate(type, inputs) ==
    /\ driver = "template"
    /\ gen.type = ""
    /\ LET r == generateWithTemplate(type, inputs)
       IN  gen' = [type |-> type, inputs |-> inputs, threw |-> r.threw, by |-> r.by,
                   text |-> r.text]
    /\ UNCHANGED <<endpoint, driver, env, now, submissionCounts, attemptCounts,
                   generationCounts, req, call, out, fresh, accepted, ana, auth,
                   sheets, sheetCall, twin>>

TemplateNext ==
    /\ driver = "template"
    /\ \E type \in TemplateTypes, inputs \in TemplateInputs :
            CallGenerateWithTemplate(type, inputs)

\* ------------------------------ text analysis helpers (part_003 465-525)
\* A lower-cased text is modelled by the set of the keywords it includes.
\* the keywords identifyBusinessType looks for
TypeWords ==
    {"manager", "management", "digital", "service", "tool", "platform", "software",
     "app", "consulting", "advisor"}

\* the keywords extractTargetMarket looks for
MarketWords ==
    {"small business", "enterprise", "startup", "home", "restaurant", "retail",
     "healthcare", "education"}

\* variant: the software platform is looked for before the digital services
identifyBusinessType_softwareFirst(conceptLower) ==
    IF "manager" \in conceptLower \/ "management" \in conceptLower
    THEN "management_platform"
    ELSE IF "platform" \in conceptLower \/ "software" \in conceptLower
            \/ "app" \in conceptLower
    THEN "software_platform"
    ELSE IF "digital" \in conceptLower
            /\ ("service" \in conceptLower \/ "tool" \in conceptLower)
    THEN "digital_services"
    ELSE IF "consulting" \in conceptLower \/ "advisor" \in conceptLower
    THEN "consulting_service"
    ELSE "general_business"

\* lines 465-477
identifyBusinessType(conceptLower) ==
    IF "manager" \in conceptLower \/ "management" \in conceptLower
    THEN "management_platform"
    ELSE IF "digital" \in conceptLower
            /\ ("service" \in conceptLower \/ "tool" \in conceptLower)
    THEN "digital_services"
    ELSE IF "platform" \in conceptLower \/ "software" \in conceptLower
            \/ "app" \in conceptLower
    THEN "software_platform"
    ELSE IF "consulting" \in conceptLower \/ "advisor" \in conceptLower
    THEN "consulting_service"
    ELSE "general_business"

\* lines 500-512
extractTargetMarket(conceptLower) ==
    IF "small business" \in conceptLower THEN "small businesses"
    ELSE IF "enterprise" \in conceptLower THEN "enterprise clients"
    ELSE IF "startup" \in conceptLower THEN "startups"
    ELSE IF "home" \in conceptLower THEN "home-based businesses"
    ELSE IF "restaurant" \in conceptLower THEN "restaurants"
    ELSE IF "retail" \in conceptLower THEN "retail businesses"
    ELSE IF "healthcare" \in conceptLower THEN "healthcare providers"
    ELSE IF "education" \in conceptLower THEN "educational institutions"
    ELSE "small and medium businesses"

\* the market keywords a problem text of the samples may include
ProblemWords == {"enterprise", "restaurant", "education"}

\* the analysis call fn was made on the texts concept and problem and
\* returned ret
Analysed(fn, concept, problem, ret) ==
    /\ driver = "analysis"
    /\ ana.fn = ""
    /\ ana' = [fn |-> fn, concept |-> concept, problem |-> problem, ret |-> ret]
    /\ UNCHANGED <<endpoint, driver, env, now, submissionCounts, attemptCounts,
                   generationCounts, req, call, out, fresh, accepted, gen, auth,
                   sheets, sheetCall, twin>>

\* lines 347-348: generateIntelligentSolution classifies the concept
CallIdentifyBusinessType(concept) ==
    Analysed("identifyBusinessType", concept, {}, identifyBusinessType(concept))

\* lines 345-363 and 514-516: generateIntelligentSolution(concept, problem) and
\* generateContextualIntro(concept, problem) infer the target market from the
\* concept
CallExtractTargetMarket(concept, problem) ==
    Analysed("extractTargetMarket", concept, problem, extractTargetMarket(concept))

AnalysisNext ==
    /\ driver = "analysis"
    /\ \/ \E concept \in SUBSET TypeWords : CallIdentifyBusinessType(concept)
       \/ \E concept \in SUBSET MarketWords, problem \in SUBSET ProblemWords :
               CallExtractTargetMarket(concept, problem)

\* ------------------------------------------ participateHandler (participate.js)
\* the requests sent: method and shape of the body ("none": no body; "missing":
\* a required field is empty; "bademail"; "badtype": involvementType is not one
\* of the six valid types)
ParticipateRequests ==
    {<<"OPTIONS", "ok">>, <<"GET", "ok">>, <<"POST", "none">>, <<"POST", "missing">>,
     <<"POST", "bademail">>, <<"POST", "badtype">>, <<"POST", "ok">>}

ParticipateOutcomes == {"clientFail", "appendFail", "emailFail", "ok"}

\* variant: the e-mail send is not wrapped in try/catch
participateHandler_emailFatal(method, body, o) ==
    /\ endpoint = "participate"
    /\ driver = "http"
    /\ o = "emailFail" => env.email
    /\ body # "ok" => o = "ok"
    /\ CASE method = "OPTIONS" -> Reply(method, "", 200, "", <<>>)
         [] method \notin {"OPTIONS", "POST"} ->
                Reply(method, "", 405, "METHOD_NOT_ALLOWED", <<>>)
         [] method = "POST" /\ body = "none" ->
                Reply(method, "", 500, "INTERNAL_SERVER_ERROR", <<>>)
         [] method = "POST" /\ body = "missing" ->
                Reply(method, "", 400, "MISSING_REQUIRED_FIELDS", <<>>)
         [] method = "POST" /\ body = "bademail" ->
                Reply(method, "", 400, "INVALID_EMAIL", <<>>)
         [] method = "POST" /\ body = "badtype" ->
                Reply(method, "", 400, "INVALID_INVOLVEMENT_TYPE", <<>>)
         [] OTHER ->
                IF o = "clientFail"
                THEN Reply(method, "", 500, "INTERNAL_SERVER_ERROR",
                           <<"client", "clientFail">>)
                ELSE IF o = "appendFail"
                THEN Reply(method, "", 500, "INTERNAL_SERVER_ERROR",
                           <<"client", "clientOK", "ensure", "append", "appendFail">>)
                ELSE IF o = "emailFail"
                THEN Reply(method, "", 500, "INTERNAL_SERVER_ERROR",
                           <<"client", "clientOK", "ensure", "append", "appendOK",
                             "email", "emailFail">>)
                ELSE Reply(method, "", 200, "",
                           <<"client", "clientOK", "ensure", "append", "appendOK">>
                             \o (IF env.email THEN <<"email", "emailOK">> ELSE <<>>))
    /\ KeepTables /\ NoHistory
    /\ Frame

\* lines 311-455; the handler reads and writes no module state, so the whole
\* call is one step: o is how its collaborator calls settle
participateHandler(method, body, o) ==
    /\ endpoint = "participate"
    /\ driver = "http"
    /\ o = "emailFail" => env.email
    /\ body # "ok" => o = "ok"
    /\ CASE method = "OPTIONS" -> Reply(method, "", 200, "", <<>>)
         [] method \notin {"OPTIONS", "POST"} ->
                Reply(method, "", 405, "METHOD_NOT_ALLOWED", <<>>)
         [] method = "POST" /\ body = "none" ->
                Reply(method, "", 500, "INTERNAL_SERVER_ERROR", <<>>)
         [] method = "POST" /\ body = "missing" ->
                Reply(method, "", 400, "MISSING_REQUIRED_FIELDS", <<>>)
         [] method = "POST" /\ body = "bademail" ->
                Reply(method, "", 400, "INVALID_EMAIL", <<>>)
         [] method = "POST" /\ body = "badtype" ->
                Reply(method, "", 400, "INVALID_INVOLVEMENT_TYPE", <<>>)
         [] OTHER ->
                IF o = "clientFail"
                THEN Reply(method, "", 500, "INTERNAL_SERVER_ERROR",
                           <<"client", "clientFail">>)
                ELSE IF o = "appendFail"
                THEN Reply(method, "", 500, "INTERNAL_SERVER_ERROR",
                           <<"client", "clientOK", "ensure", "append", "appendFail">>)
                ELSE Reply(method, "", 200, "",
                           <<"client", "clientOK", "ensure", "append", "appendOK">>
                             \o (IF env.email
                                 THEN <<"email", IF o = "emailFail" THEN "emailFail"
                                                 ELSE "emailOK">>
                                 ELSE <<>>))
    /\ KeepTables /\ NoHistory
    /\ Frame

\* -------------------------------------------- aiCoachingHandler (participate.js)
CoachingRequests ==
    {<<"OPTIONS", "ok">>, <<"GET", "ok">>, <<"POST", "none">>, <<"POST", "missing">>,
     <<"POST", "ok">>}

\* lines 689-755 with saveCoachingSession (760-780) and sendConfirmationEmail
\* (785-802): s is how the save settles, m how the e-mail send settles
aiCoachingHandler(method, body, s, m) ==
    /\ endpoint = "coaching"
    /\ driver = "http"
    /\ s = "saveFail" => env.sheetId /\ body = "ok"
    /\ m = "emailFail" => env.email /\ body = "ok"
    /\ CASE method = "OPTIONS" -> Reply(method, "", 200, "", <<>>)
         [] method \notin {"OPTIONS", "POST"} -> Reply(method, "", 405, "METHOD_NOT_ALLOWED", <<>>)
         [] method = "POST" /\ body = "none" -> Reply(method, "", 500, "SESSION_SAVE_ERROR", <<>>)
         [] method = "POST" /\ body = "missing" -> Reply(method, "", 400, "MISSING_FIELD", <<>>)
         [] OTHER ->
                Reply(method, "", 200, "",
                      (IF env.sheetId THEN <<"save", s>> ELSE <<>>)
                        \o (IF env.email THEN <<"email", m>> ELSE <<>>))
    /\ KeepTables /\ NoHistory
    /\ Frame

\* ------------------------------------------------ handler (participate.js 23)
\* lines 23-147: the first participation handler of participate.js (default
\* export); its error answers are {error: '...'} without a code.  o is how the
\* spreadsheet calls and the e-mail send settle
handler(method, body, o) ==
    /\ endpoint = "participateV1"
    /\ driver = "http"
    /\ body # "ok" => o = "ok"
    /\ LET Send(st, ks, tr) ==
               out' = [method |-> method, key |-> "", status |-> st, code |-> "",
                       by |-> "", trace |-> tr, keys |-> ks, session |-> "", type |-> ""]
       IN  CASE method = "OPTIONS" -> Send(200, {}, <<>>)
             [] method \notin {"OPTIONS", "POST"} -> Send(405, {"error"}, <<>>)
             [] method = "POST" /\ body = "none" -> Send(500, {"error"}, <<>>)
             [] method = "POST" /\ body \in {"missing", "bademail", "badtype"} ->
                    Send(400, {"error"}, <<>>)
             [] OTHER ->
                    IF o = "clientFail"
                    THEN Send(500, {"error"}, <<"get", "getFail">>)
                    ELSE IF o = "appendFail"
                    THEN Send(500, {"error"}, <<"get", "append", "appendFail">>)
                    ELSE Send(200, {},
                              <<"get", "append", "appendOK", "email",
                                IF o = "emailFail" THEN "emailFail" ELSE "emailOK">>)
    /\ UNCHANGED req
    /\ KeepTables /\ NoHistory
    /\ Frame

\* ------------------------------------------------------- sessions (auth.js)
\* the session a request comes with: "none" (no session.user, or one without
\* e-mail), "expired" (an admin whose loginTime is older than the session
\* duration), "badrole" (a role outside ALLOWED_ROLES), "user" (role user),
\* "admin"
Sessions == {"none", "expired", "badrole", "user", "admin"}

\* what res.status(..).json(..) returns is the framework's choice: the response
\* object (truthy) or undefined
JsonReturns == {"res", "undefined"}

NoSend == [status |-> 0, code |-> ""]

\* req.session as the checks read it: user (session.user is set), email
\* (user.email is set), age of user.loginTime ("none": no loginTime; "expired":
\* older than getSessionDuration()), role ("none": no role; "bogus": a role
\* outside ALLOWED_ROLES)
SessionStates ==
    [user : BOOLEAN, email : BOOLEAN, age : {"none", "fresh", "expired"},
     role : {"none", "admin", "superadmin", "user", "bogus"}]

\* the session of each class of Sessions
SessionOf(sess) ==
    CASE sess = "none" -> [user |-> FALSE, email |-> FALSE, age |-> "none", role |-> "none"]
      [] sess = "expired" ->
            [user |-> TRUE, email |-> TRUE, age |-> "expired", role |-> "admin"]
      [] sess = "badrole" ->
            [user |-> TRUE, email |-> TRUE, age |-> "fresh", role |-> "bogus"]
      [] sess = "user" -> [user |-> TRUE, email |-> TRUE, age |-> "fresh", role |-> "user"]
      [] OTHER -> [user |-> TRUE, email |-> TRUE, age |-> "fresh", role |-> "admin"]

\* the res argument: "none" (no response object given), or a response object
\* whose json() returns the object ("res") or nothing ("undefined")
ResKinds == {"none", "res", "undefined"}

\* auth.js 94-159, called without next: sends is the answer it sends, returns
\* the value it returns ("true", "false", or the value of res.json(): "res" or
\* "undefined"), attached whether req.user was set
requireAuth(s, r) ==
    LET fail(st, cd) ==
            [sends |-> IF r = "none" THEN <<>> ELSE <<[status |-> st, code |-> cd]>>,
             returns |-> IF r = "none" THEN "false" ELSE r, attached |-> FALSE]
    IN  IF ~s.user \/ ~s.email THEN fail(401, "UNAUTHORIZED")
        ELSE IF s.age = "expired" THEN fail(401, "SESSION_EXPIRED")
        ELSE IF s.role = "bogus" THEN fail(403, "INVALID_ROLE")
        ELSE [sends |-> <<>>, returns |-> "true", attached |-> TRUE]

\* auth.js 168-208, called without next: sends lists the answers it sends or
\* tries to send (a send after the first throws), returns is the value it
\* returns ("throws": the send in its catch block threw), passes is whether a
\* caller testing !requireAdmin(req, res) goes on, attached whether req.user
\* was set
requireAdmin(s, r) ==
    LET a == requireAuth(s, r)
        forbidden == [status |-> 403, code |-> "FORBIDDEN"]
        authz == [status |-> 500, code |-> "AUTHZ_ERROR"]
        done(sends, returns) ==
            [sends |-> sends, returns |-> returns,
             passes |-> returns \in {"true", "res"}, attached |-> a.attached]
    IN  IF a.returns \in {"false", "undefined"}
        THEN done(a.sends, "false")
        ELSE IF ~s.user
        THEN \* user is undefined: user.role throws, the catch sends again
             done(a.sends \o <<authz>>, "throws")
        ELSE IF s.role \notin {"admin", "superadmin"}
        THEN IF r = "none" THEN done(a.sends, "false")
             ELSE IF a.sends = <<>> THEN done(<<forbidden>>, r)
             ELSE done(a.sends \o <<forbidden, authz>>, "throws")
        ELSE done(a.sends, "true")

\* a direct call of fn on session s with response object r
Authorised(fn, s, r, result) ==
    /\ driver = "auth"
    /\ auth.fn = ""
    /\ auth' = [fn |-> fn, session |-> s, json |-> r, returns |-> result.returns,
                sends |-> [i \in 1..Len(result.sends) |-> result.sends[i].code]]
    /\ UNCHANGED <<endpoint, driver, env, now, submissionCounts, attemptCounts,
                   generationCounts, req, call, out, fresh, accepted, gen, ana,
                   sheets, sheetCall, twin>>

CallRequireAuth(s, r) == Authorised("requireAuth", s, r, requireAuth(s, r))

CallRequireAdmin(s, r) == Authorised("requireAdmin", s, r, requireAdmin(s, r))

AuthNext ==
    /\ driver = "auth"
    /\ \/ \E s \in SessionStates, r \in ResKinds : CallRequireAuth(s, r)
       \/ \E s \in SessionStates, r \in ResKinds : CallRequireAdmin(s, r)

\* ------------------------- the handlers and the spreadsheet (driver "sheet")
\* The collaborators are healthy and no client is rate limited: what a call
\* answers depends on the rows of the spreadsheet only.
AdminEmails == {"root@acc.edu", "Root@ACC.edu", "dean@acc.edu"}
AdminPasswords == {"secret123", "short"}
AdminNames == {"Admin User", "Active"}
LoginPasswords == {"secret123", "wrong-pass"}
FullNames == {"Ann", " Ann "}
StudentEmails == {"ann@acc.edu", "Ann@ACC.edu"}
BodyTimestamps == {"", "2025-07-01", "2025-07-02"}
Limits == {1, 50}

\* bcrypt.hash(password, 12) and bcrypt.compare(password, hash)
Hash(password) ==
    CASE password = "secret123" -> "$2b$12$secret123"
      [] password = "wrong-pass" -> "$2b$12$wrong-pass"
      [] OTHER -> "$2b$12$other"

Compare(password, hash) == hash = Hash(password)

\* the password passes the length test of part_005:31
LongEnough(password) == password # "short"

\* part_005 86-95: the row createInitialAdmin writes
adminRecord(email, password, name, t) ==
    <<ToLower(email), Hash(password), "superadmin", name, Iso(t), "", "active">>

\* part_005 70-73: a row of 'Users!A2:G' has the e-mail
adminExists(users, email) ==
    \E i \in 1..Len(getSheetValues(users, 2, ToEnd)) :
        LET row == getSheetValues(users, 2, ToEnd)[i]
        IN  Cell(row, 1) # "" /\ ToLower(Cell(row, 1)) = ToLower(email)

\* part_005 22-107: the Users sheet after createInitialAdmin(email, password, name)
createInitialAdmin(users, email, password, name, t) ==
    IF ~LongEnough(password) THEN users
    ELSE LET headed == IF Len(getSheetValues(users, 1, 1)) = 0
                       THEN appendSheetValues(users, UsersHeader)
                       ELSE users
         IN  IF adminExists(headed, email) THEN headed
             ELSE appendSheetValues(headed, adminRecord(email, password, name, t))

\* part_006 106-132: the first row of 'Users!A2:G' with the e-mail, as a user
\* object
findUserByEmail(users, email) ==
    LET rows == getSheetValues(users, 2, ToEnd)
        hits == {i \in 1..Len(rows) :
                    Cell(rows[i], 1) # "" /\ ToLower(Cell(rows[i], 1)) = ToLower(email)}
        userRow == rows[CHOOSE i \in hits : \A h \in hits : i <= h]
    IN  IF hits = {} THEN [found |-> FALSE]
        ELSE [found |-> TRUE, email |-> Cell(userRow, 1), password |-> Cell(userRow, 2),
              role |-> IF Cell(userRow, 3) = "" THEN "user" ELSE Cell(userRow, 3),
              status |-> IF Cell(userRow, 4) = "" THEN "active" ELSE Cell(userRow, 4),
              inviteToken |-> Cell(userRow, 5),
              created |-> Cell(userRow, 6), name |-> Cell(userRow, 7)]

\* login.js 74-134 with healthy collaborators: the outcome of LoginOutcomes the
\* rows of the Users sheet give, and the role answered
LoginOutcomeOf(users, email, password) ==
    LET user == findUserByEmail(users, email)
    IN  IF ~user.found THEN [o |-> "notFound", role |-> ""]
        ELSE IF user.status # "" /\ ToLower(user.status) # "active"
        THEN [o |-> "inactive", role |-> ""]
        ELSE IF ~Compare(password, user.password) THEN [o |-> "noMatch", role |-> ""]
        ELSE [o |-> "ok", role |-> user.role]

\* part_000 161-169: the row submitHandler writes
submissionData(fullName, email, timestamp, t) ==
    <<TrimString(fullName), ToLower(TrimString(email)), TrimString("Computer Science"),
      TrimString("Acme"), TrimString("We sell anvils"),
      IF timestamp = "" THEN Iso(t) ELSE timestamp>>

\* submissions.js 84: validSubmissions.sort, newest first (Array.prototype.sort
\* is stable)
RECURSIVE SortNewestFirst(_)
SortNewestFirst(subs) ==
    IF Len(subs) <= 1 THEN subs
    ELSE LET rest == SortNewestFirst(Tail(subs))
             s == Head(subs)
             before == {i \in 0..Len(rest) :
                           \A j \in 1..i : DateOf(rest[j].timestamp) > DateOf(s.timestamp)}
             at == CHOOSE i \in before : \A b \in before : b <= i
         IN  SubSeq(rest, 1, at) \o <<s>> \o SubSeq(rest, at + 1, Len(rest))

\* submissions.js 64-78: the object made of a row (the status, which depends on
\* the age of the row, is left out)
SubmissionOf(row, index, t) ==
    [id |-> index, fullName |-> TrimString(Cell(row, 1)),
     email |-> ToLower(TrimString(Cell(row, 2))),
     major |-> TrimString(Cell(row, 3)), businessName |-> TrimString(Cell(row, 4)),
     businessDescription |-> TrimString(Cell(row, 5)),
     timestamp |-> IF Cell(row, 6) = "" THEN Iso(t) ELSE Cell(row, 6)]

\* submissions.js 43-107: the submissions of page 1 that GET
\* /api/submissions?limit= answers from the rows of the Submissions sheet
handleGetSubmissions(rows, limit, t) ==
    LET submissionsData == getSheetValues(rows, 2, ToEnd)
        submissions ==
            [i \in 1..Len(submissionsData) |-> SubmissionOf(submissionsData[i], i, t)]
        validSubmissions ==
            SortNewestFirst(SelectSeq(submissions,
                                      LAMBDA s : s.fullName # "" /\ s.email # ""))
    IN  SubSeq(validSubmissions, 1,
               IF limit < Len(validSubmissions) THEN limit ELSE Len(validSubmissions))

\* a call against the spreadsheet
SheetStep(after, result) ==
    /\ driver = "sheet"
    /\ sheets' = after
    /\ sheetCall' = result
    /\ UNCHANGED <<endpoint, driver, env, now, submissionCounts, attemptCounts,
                   generationCounts, req, call, out, fresh, accepted, gen, ana, auth,
                   twin>>

\* the setup script: createInitialAdmin(email, password, name)
CallCreateInitialAdmin(email, password, name) ==
    LET users == createInitialAdmin(sheets.Users, email, password, name, now)
        wrote == /\ Len(users) > 0
                 /\ users[Len(users)] = adminRecord(email, password, name, now)
                 /\ ~adminExists(sheets.Users, email)
                 /\ LongEnough(password)
    IN  /\ Len(sheets.Users) < MaxRows
        /\ SheetStep([sheets EXCEPT !.Users = users,
                                    !.admins = IF wrote THEN @ \cup {<<email, password>>}
                                               ELSE @],
                     [NoSheetCall EXCEPT !.fn = "createInitialAdmin", !.email = email,
                                         !.password = password])

\* POST /api/login {email, password}, not rate limited
CallLogin(email, password) ==
    LET r == LoginOutcomeOf(sheets.Users, email, password)
    IN  SheetStep(sheets,
                  [NoSheetCall EXCEPT
                      !.fn = "login", !.email = email, !.password = password,
                      !.status = IF r.o = "ok" THEN 200 ELSE 401,
                      !.code = CASE r.o = "ok" -> ""
                                 [] r.o = "inactive" -> "ACCOUNT_INACTIVE"
                                 [] OTHER -> "INVALID_CREDENTIALS",
                      !.role = r.role])

\* POST /api/submit with a valid body, not rate limited: answered 200
CallSubmit(fullName, email, timestamp) ==
    LET row == submissionData(fullName, email, timestamp, now)
    IN  /\ Len(sheets.Submissions) < MaxRows
        /\ SheetStep([sheets EXCEPT !.Submissions = appendSheetValues(@, row),
                                    !.accepted = @ \cup {row}],
                     [NoSheetCall EXCEPT !.fn = "submit", !.email = email, !.status = 200])

\* GET /api/submissions?limit= by an admin
CallGetSubmissions(limit) ==
    SheetStep(sheets,
              [NoSheetCall EXCEPT
                  !.fn = "getSubmissions", !.limit = limit, !.status = 200,
                  !.rows = handleGetSubmissions(sheets.Submissions, limit, now)])

SheetNext ==
    /\ driver = "sheet"
    /\ \/ \E email \in AdminEmails, password \in AdminPasswords, name \in AdminNames :
            CallCreateInitialAdmin(email, password, name)
       \/ \E email \in AdminEmails, password \in LoginPasswords : CallLogin(email, password)
       \/ \E fullName \in FullNames, email \in StudentEmails, timestamp \in BodyTimestamps :
            CallSubmit(fullName, email, timestamp)
       \/ \E limit \in Limits : CallGetSubmissions(limit)

\* the answer the client receives is the first one sent; the trace lists, in
\* order, the codes of all the answers the handler sent or tried to send ("" for
\* a 200) and "read" for a read of the spreadsheet
SendFirst(method, sess, steps) ==
    LET first == CHOOSE i \in 1..Len(steps) :
                     steps[i].status # 0 /\ \A j \in 1..(i - 1) : steps[j].status = 0
    IN  out' = [method |-> method, key |-> "", status |-> steps[first].status,
                code |-> steps[first].code, by |-> "",
                trace |-> [i \in 1..Len(steps) |-> steps[i].code],
                keys |-> BodyKeys(steps[first].code), session |-> sess, type |-> ""]

\* ------------------------------------------- sessionHandler (part_000 20-68)
SessionRequests == {"GET", "DELETE", "POST"}

\* GET answers 401 {authenticated: false, message: ...} without a session and
\* 200 with one; DELETE logs out (logoutUser swallows its errors)
sessionHandler(method, sess) ==
    /\ endpoint = "session"
    /\ driver = "http"
    /\ LET Send(st, cd, ks) ==
               out' = [method |-> method, key |-> "", status |-> st, code |-> cd,
                       by |-> "", trace |-> <<>>, keys |-> ks, session |-> sess, type |-> ""]
       IN  CASE method = "GET" /\ sess = "none" -> Send(401, "", {})
             [] method = "GET" /\ sess # "none" -> Send(200, "", {})
             [] method = "DELETE" -> Send(200, "", {})
             [] OTHER -> Send(405, "METHOD_NOT_ALLOWED", {"error", "code"})
    /\ UNCHANGED req
    /\ KeepTables /\ NoHistory
    /\ Frame

\* --------------------------------- submissionsHandler (submissions.js 21-120)
AdminRequests == {"GET", "POST", "DELETE"}

\* how the spreadsheet calls of an admin read settle
ReadOutcomes == {"clientFail", "readFail", "ok"}

\* getSheetValues(sheets, spreadsheetId, range) is called
ReadSheet == [status |-> 0, code |-> "read"]

\* the steps of handleGetSubmissions / handleSessionLookup: cfg and err are
\* the codes of the configuration answer and of the catch; the log line that
\* reads req.user.email throws when req.user was not attached
HandleGet(attached, o, cfg, err) ==
    IF ~attached
    THEN <<[status |-> 500, code |-> err]>>
    ELSE IF o = "clientFail" THEN <<[status |-> 500, code |-> err]>>
    ELSE IF ~env.sheetId THEN <<[status |-> 500, code |-> cfg]>>
    ELSE IF o = "readFail" THEN <<ReadSheet, [status |-> 500, code |-> err]>>
    ELSE <<ReadSheet, [status |-> 200, code |-> ""]>>

\* requireAdmin runs before the method check
submissionsHandler(method, sess, j, o) ==
    /\ endpoint = "submissions"
    /\ driver = "http"
    /\ LET adm == requireAdmin(SessionOf(sess), j)
           rest == IF ~adm.passes THEN <<>>
                   ELSE IF method = "GET"
                   THEN HandleGet(adm.attached, o, "CONFIG_ERROR", "FETCH_ERROR")
                   ELSE <<[status |-> 405, code |-> "METHOD_NOT_ALLOWED"]>>
       IN  SendFirst(method, sess, adm.sends \o rest)
    /\ UNCHANGED req
    /\ KeepTables /\ NoHistory
    /\ Frame

\* ------------------------------------ sessionLookupHandler (part_002 18-143)
sessionLookupHandler(method, sess, j, o) ==
    /\ endpoint = "lookup"
    /\ driver = "http"
    /\ LET adm == requireAdmin(SessionOf(sess), j)
           rest == IF ~adm.passes THEN <<>>
                   ELSE IF method = "GET"
                   THEN HandleGet(adm.attached, o, "SHEETS_NOT_CONFIGURED",
                                  "SESSION_LOOKUP_ERROR")
                   ELSE <<[status |-> 405, code |-> "METHOD_NOT_ALLOWED"]>>
       IN  SendFirst(method, sess, adm.sends \o rest)
    /\ UNCHANGED req
    /\ KeepTables /\ NoHistory
    /\ Frame

UnitNext ==
    /\ driver = "unit"
    /\ \/ \E k \in Keys : UnitIsRateLimited(k)
       \/ \E k \in Keys : UnitRecord(k)
       \/ \E k \in Keys : UnitClear(k)

SubmitNext ==
    /\ endpoint = "submit"
    /\ \/ \E rq \in SubmitRequests, k \in Keys : SubmitStart(rq[1], rq[2], k)
       \/ \E q \in BagToSet(req), o \in SubmitOutcomes : SubmitSettle(q, o)

LoginNext ==
    /\ endpoint = "login"
    /\ \/ \E rq \in LoginRequests, k \in Keys : LoginStart(rq[1], rq[2], k)
       \/ \E q \in BagToSet(req), o \in LoginOutcomes : LoginSettle(q, o)

GenerateNext ==
    /\ endpoint = "generate"
    /\ \/ \E rq \in GenerateRequests, k \in GenerateKeys :
               GenerateStart(rq[1], rq[2], rq[3], k)
       \/ \E q \in BagToSet(req), a \in AIOutcomes, l \in LogOutcomes :
               GenerateSettle(q, a, l)

OtherNext ==
    /\ endpoint \in {"participate", "coaching", "participateV1"}
    /\ \/ \E rq \in ParticipateRequests, o \in ParticipateOutcomes :
               participateHandler(rq[1], rq[2], o)
       \/ \E rq \in CoachingRequests, s \in {"saveOK", "saveFail"},
              m \in {"emailOK", "emailFail"} :
               aiCoachingHandler(rq[1], rq[2], s, m)
       \/ \E rq \in ParticipateRequests, o \in ParticipateOutcomes : handler(rq[1], rq[2], o)

AdminNext ==
    /\ endpoint \in {"session", "submissions", "lookup"}
    /\ \/ \E method \in SessionRequests, sess \in Sessions : sessionHandler(method, sess)
       \/ \E method \in AdminRequests, sess \in Sessions, j \in JsonReturns,
              o \in ReadOutcomes : submissionsHandler(method, sess, j, o)
       \/ \E method \in AdminRequests, sess \in Sessions, j \in JsonReturns,
              o \in ReadOutcomes : sessionLookupHandler(method, sess, j, o)

Init == \E e \in Endpoints, d \in {"http", "unit", "template", "analysis", "auth", "sheet"} :
            /\ d = "unit" => e \in Limited
            /\ d \in {"template", "analysis"} => e = "generate"
            /\ d \in {"auth", "sheet"} => e = "submissions"
            /\ InitOf(e, d)

Next ==
    \/ Tick
    \/ Sweep
    \/ UnitNext
    \/ SubmitNext
    \/ LoginNext
    \/ GenerateNext
    \/ OtherNext
    \/ AdminNext
    \/ TemplateNext
    \/ AnalysisNext
    \/ AuthNext
    \/ SheetNext

Spec == Init /\ [][Next]_vars

InitLimiter == \E e \in Limited : InitOf(e, "unit")

NextLimiter == Tick \/ Sweep \/ UnitNext

SpecLimiter == InitLimiter /\ [][NextLimiter]_vars

InitSubmit == InitOf("submit", "http")

NextSubmit == Tick \/ Sweep \/ SubmitNext

SpecSubmit == InitSubmit /\ [][NextSubmit]_vars

\* the submission endpoint, through requests or through direct limiter calls
InitSubmitLimiter == InitLimiter \/ InitSubmit

NextSubmitLimiter == Tick \/ Sweep \/ UnitNext \/ SubmitNext

SpecSubmitLimiter == InitSubmitLimiter /\ [][NextSubmitLimiter]_vars

InitLogin == InitOf("login", "http")

NextLogin == Tick \/ Sweep \/ LoginNext

SpecLogin == InitLogin /\ [][NextLogin]_vars

\* the login endpoint with the history of its failed attempts
InitLoginAttempts == InitOf("login", "http")

NextLoginAttempts ==
    \/ Tick
    \/ Sweep
    \/ \E r \in LoginRequests, k \in Keys : LoginStart(r[1], r[2], k)
    \/ \E q \in BagToSet(req), o \in LoginOutcomes : LoginSettleCounted(q, o)

SpecLoginAttempts == InitLoginAttempts /\ [][NextLoginAttempts]_vars

\* the login endpoint, through requests or through direct limiter calls
InitLoginLimiter == InitLimiter \/ InitLogin

NextLoginLimiter == Tick \/ Sweep \/ UnitNext \/ LoginNext

SpecLoginLimiter == InitLoginLimiter /\ [][NextLoginLimiter]_vars

\* the three limited endpoints with their requests handled one at a time: a
\* request arrives only when none is in flight (the clock and the sweep run
\* while a request waits for its collaborators)
InitSequential == \E e \in Limited : InitOf(e, "http")

OneAtATime == BagCardinality(req) = 0

NextSequential ==
    \/ Tick
    \/ Sweep
    \/ /\ OneAtATime
       /\ \/ \E rq \in SubmitRequests, k \in Keys : SubmitStart(rq[1], rq[2], k)
          \/ \E rq \in LoginRequests, k \in Keys : LoginStart(rq[1], rq[2], k)
          \/ \E rq \in GenerateRequests, k \in GenerateKeys :
                 GenerateStart(rq[1], rq[2], rq[3], k)
    \/ \E q \in BagToSet(req), o \in SubmitOutcomes : SubmitSettle(q, o)
    \/ \E q \in BagToSet(req), o \in LoginOutcomes : LoginSettle(q, o)
    \/ \E q \in BagToSet(req), a \in AIOutcomes, l \in LogOutcomes :
           GenerateSettle(q, a, l)

SpecSequential == InitSequential /\ [][NextSequential]_vars

\* the submission endpoint beside the run in which the sweep never executes
InitTwin == InitOf("submit", "twin")

NextTwin ==
    \/ Tick
    \/ Sweep
    \/ \E rq \in SubmitRequests, k \in Keys : TwinStart(rq[1], rq[2], k)
    \/ \E q \in BagToSet(req), o \in SubmitOutcomes : TwinSettle(q, o)

SpecTwin == InitTwin /\ [][NextTwin]_vars

InitGenerate == InitOf("generate", "http")

NextGenerate == Tick \/ Sweep \/ GenerateNext

SpecGenerate == InitGenerate /\ [][NextGenerate]_vars

\* the template generator called directly
InitTemplate == InitOf("generate", "template")

SpecTemplate == InitTemplate /\ [][TemplateNext]_vars

\* the text-analysis helpers called directly
InitAnalysis == InitOf("generate", "analysis")

SpecAnalysis == InitAnalysis /\ [][AnalysisNext]_vars

\* the setup script, login, registration and the admin's list, against the
\* spreadsheet
InitSheet == InitOf("submissions", "sheet")

SpecSheet == InitSheet /\ [][SheetNext]_vars

\* requireAuth and requireAdmin called directly
InitAuth == InitOf("submissions", "auth")

SpecAuth == InitAuth /\ [][AuthNext]_vars

\* the generation endpoint, through requests or through direct generator calls
InitGenerateTemplate == InitGenerate \/ InitTemplate

NextGenerateTemplate == NextGenerate \/ TemplateNext

SpecGenerateTemplate == InitGenerateTemplate /\ [][NextGenerateTemplate]_vars

\* ====================================================== properties checked
Has(tr, x) == \E i \in 1..Len(tr) : tr[i] = x

\* isLimited as the specification words it: a record exists for k, it is not
\* expired (now - lastActivity <= window) and count >= maxCount
IsLimited(e, k) ==
    /\ k \in DOMAIN TableOf(e)
    /\ now - LastOf(e, TableOf(e)[k]) <= WindowOf(e)
    /\ TableOf(e)[k].count >= MaxOf(e)

\* the record of k is expired: more than the window has elapsed since its
\* last activity
IsExpired(e, k) ==
    /\ k \in DOMAIN TableOf(e)
    /\ now - LastOf(e, TableOf(e)[k]) > WindowOf(e)

\* this step is the arrival of a well-formed POST of client k: it passed the
\* validation and ran the rate-limit check, and was answered at once or is now
\* in flight
StartedFor(k) ==
    \/ /\ req' = req
       /\ out'.status # 0
       /\ out'.key = k
    \/ /\ BagCardinality(req') = BagCardinality(req) + 1
       /\ \E q \in BagToSet(req') : q.key = k /\ CopiesIn(q, req') > CopiesIn(q, req)

\* this step called isRateLimited(k) and the call returned r: directly (unit
\* driver) or as the rate-limit check of a handler, which answers 429 exactly
\* when the call returned true
IsLimitedReturned(k, r) ==
    IF driver = "unit"
    THEN call'.op = "isRateLimited" /\ call'.key = k /\ call'.ret = r
    ELSE endpoint \in Limited /\ StartedFor(k) /\ (out'.status = 429) = r

C2_LimitedAfterMaxRecords ==
    [][\A k \in Keys, r \in BOOLEAN :
          IsLimitedReturned(k, r) =>
              /\ (fresh[k].n = MaxOf(endpoint)
                    /\ now - fresh[k].last <= WindowOf(endpoint)) => r
              /\ fresh[k].n = MaxOf(endpoint) - 1 => ~r
              /\ (endpoint = "submit" /\ driver = "http" /\ accepted[k] >= 3) =>
                    /\ r
                    /\ out'.trace = <<"check">>
                    /\ submissionCounts' = submissionCounts]_vars

\* the fourth submission of a client is answered 429 after exactly three were
\* accepted and recorded
C2_Witness ==
    /\ endpoint = "submit"
    /\ out.status = 429
    /\ accepted[out.key] = 3
    /\ fresh[out.key].n = 3

\* C3: when more than the window has elapsed since the last activity of k's
\* record, isRateLimited(k) returns false and k has no record afterwards; and
\* whenever isRateLimited(k) returns true, at least maxCount record calls were
\* made for k since k last had no record.
C3_ExpiredIsAbsent ==
    [][\A k \in Keys, r \in BOOLEAN :
          IsLimitedReturned(k, r) =>
              /\ IsExpired(endpoint, k) => ~r /\ k \notin DOMAIN TableOf(endpoint)'
              /\ r => fresh[k].n >= MaxOf(endpoint)]_vars

\* a call found a full record, returned false and left no record
C3_Witness ==
    /\ call.op = "isRateLimited"
    /\ call.had >= MaxOf(endpoint)
    /\ ~call.ret
    /\ call.key \notin DOMAIN TableOf(endpoint)

\* C6: clearRateLimit(key) leaves no record of key and leaves the records of
\* all other keys as they were, the isRateLimited(key) that follows it returns
\* false, and every login answered 200 has cleared the record of its client.
C6_ClearRemovesRecord ==
    [][/\ call'.op = "clear" =>
              /\ call'.key \notin DOMAIN attemptCounts'
              /\ \A k \in Keys \ {call'.key} :
                    /\ k \in DOMAIN attemptCounts' <=> k \in DOMAIN attemptCounts
                    /\ k \in DOMAIN attemptCounts => attemptCounts'[k] = attemptCounts[k]
       /\ (call.op = "clear" /\ call'.op = "isRateLimited" /\ call'.key = call.key)
              => ~call'.ret
       /\ (endpoint = "login" /\ out'.status = 200) =>
              /\ Has(out'.trace, "clear")
              /\ out'.key \notin DOMAIN attemptCounts'
              /\ \A k \in Keys \ {out'.key} :
                    /\ k \in DOMAIN attemptCounts' <=> k \in DOMAIN attemptCounts
                    /\ k \in DOMAIN attemptCounts => attemptCounts'[k] = attemptCounts[k]
      ]_vars

\* a locked-out client was cleared while another client keeps its record
C6_Witness ==
    /\ call.op = "clear"
    /\ call.had >= MAX_ATTEMPTS
    /\ call.key \notin DOMAIN attemptCounts
    /\ \E k \in Keys \ {call.key} : k \in DOMAIN attemptCounts

\* C4: per client key and per interval of one hour at most 3 submissions are
\* accepted (answered 200 and appended), in every interleaving of the
\* submitHandler calls in flight.
C4_AtMostThreePerHour ==
    endpoint = "submit" => \A k \in Keys : accepted[k] <= 3

\* the count the limiter holds for k: 0 when k has no record or its record is
\* expired
EffCount(e, k) == IF IsExpired(e, k) THEN 0 ELSE CountOf(e, k)

\* this step answered a request with 200 and recorded it for client k: the
\* record call raised the count of k by exactly 1 (on the table its own
\* rate-limit check left, when the check ran in this step) and changed no other
\* record, and it came after the append / the generation had returned
CountedOnce(k) ==
    /\ out'.key = k
    /\ CountOf(endpoint, k)' =
           (IF req' = req THEN EffCount(endpoint, k) ELSE CountOf(endpoint, k)) + 1
    /\ \A j \in Keys \ {k} :
          /\ j \in DOMAIN TableOf(endpoint)' <=> j \in DOMAIN TableOf(endpoint)
          /\ j \in DOMAIN TableOf(endpoint) =>
                TableOf(endpoint)'[j] = TableOf(endpoint)[j]
    /\ Cardinality({i \in 1..Len(out'.trace) : out'.trace[i] = "record"}) = 1
    /\ out'.trace[Len(out'.trace)] = "record"
    /\ Has(out'.trace, IF endpoint = "submit" THEN "appendOK" ELSE "generated")

\* this step of a request changed no count and recorded nothing
Uncounted ==
    /\ \A k \in Keys : EffCount(endpoint, k)' = EffCount(endpoint, k)
    /\ ~Has(out'.trace, "record")

\* C5 (as stated): in submitHandler and claudeGenerateHandler every request
\* that ends with 200 incremented the client's count by exactly 1, after the
\* append / the generation; requests ending 400, 405, 429 or 500, and the
\* steps of a request before its answer, left every count unchanged.
C5_CountedOnEvery200 ==
    [][(endpoint \in {"submit", "generate"} /\ (out'.status # 0 \/ req' # req)) =>
          IF out'.status = 200
          THEN \E k \in Keys : CountedOnce(k)
          ELSE Uncounted]_vars

\* C5 (amended): the same for every POST request that ends with 200; an
\* OPTIONS request, which claudeGenerateHandler answers 200, is not counted.
C5_CountedOnEveryPost200 ==
    [][(endpoint \in {"submit", "generate"} /\ (out'.status # 0 \/ req' # req)) =>
          IF out'.status = 200 /\ out'.method = "POST"
          THEN \E k \in Keys : CountedOnce(k)
          ELSE Uncounted]_vars

\* the second generation of a client was answered 200 by the AI service and
\* recorded while another request of the client is in flight
C5_Witness ==
    /\ endpoint = "generate"
    /\ out.status = 200
    /\ out.method = "POST"
    /\ out.by = "claude-api"
    /\ generationCounts[out.key].count = 2
    /\ req # EmptyBag

\* the AI call of this request did not succeed
AIFailed(tr) ==
    \E x \in {"noKey", "netErr", "non2xx", "badJson", "noContent"} : Has(tr, x)

\* C7: a well-formed POST to the generation endpoint from a client that is not
\* limited, whose AI call is not configured or fails, is answered 200 with
\* generatedBy = 'template' by the template generator, never 5xx; and the
\* template generator runs only when the AI call did not succeed.
C7_FallbackAnswers200 ==
    (endpoint = "generate" /\ out.method = "POST" /\ Has(out.trace, "check")
        /\ out.status # 429) =>
        /\ AIFailed(out.trace) =>
              /\ out.status = 200
              /\ out.by = "template"
              /\ Has(out.trace, "template")
        /\ Has(out.trace, "template") => AIFailed(out.trace)

\* C8: in the generation, submission and login handlers a well-formed POST of
\* a client that is limited is answered 429 RATE_LIMITED, makes no call after
\* the rate-limit check, and leaves every record as it was.
C8_LimitedIsRejected ==
    [][\A k \in Keys :
          (driver = "http" /\ endpoint \in Limited /\ StartedFor(k)
              /\ IsLimited(endpoint, k)) =>
              /\ out'.status = 429
              /\ out'.code = "RATE_LIMITED"
              /\ out'.trace = <<"check">>
              /\ req' = req
              /\ UNCHANGED <<submissionCounts, attemptCounts, generationCounts>>]_vars

\* a locked-out client's login was answered 429 while another login is in flight
C8_Witness ==
    /\ endpoint = "login"
    /\ out.status = 429
    /\ out.key \in DOMAIN attemptCounts
    /\ attemptCounts[out.key].count >= MAX_ATTEMPTS
    /\ req # EmptyBag

\* C9: when createSheetsClient() or appendSheetValues() fails in submitHandler,
\* the answer is 500 SUBMISSION_ERROR, the append was attempted at most once,
\* no e-mail was sent and nothing was recorded for the client.
C9_AppendFailureIs500 ==
    [][(endpoint = "submit" /\ out'.status # 0
          /\ (Has(out'.trace, "clientFail") \/ Has(out'.trace, "appendFail"))) =>
          /\ out'.status = 500
          /\ out'.code = "SUBMISSION_ERROR"
          /\ Cardinality({i \in 1..Len(out'.trace) : out'.trace[i] = "append"}) <= 1
          /\ ~Has(out'.trace, "email")
          /\ ~Has(out'.trace, "record")
          /\ submissionCounts' = submissionCounts]_vars

\* the append of a client that has a record failed
C9_Witness ==
    /\ endpoint = "submit"
    /\ Has(out.trace, "appendFail")
    /\ out.key \in DOMAIN submissionCounts

\* C10: when the confirmation e-mail (submission, participation, coaching),
\* the AI-usage log (generation) or the last-login update (login) fails, the
\* request is still answered 200 and, for submission and generation, it is
\* still recorded against the client.
C10_NonCriticalFailureIs200 ==
    [][(out'.status # 0
          /\ \E x \in {"emailFail", "logFail", "lastLoginFail"} : Has(out'.trace, x)) =>
          /\ out'.status = 200
          /\ endpoint \in {"submit", "generate"} =>
                /\ Has(out'.trace, "record")
                /\ \E k \in Keys :
                      /\ out'.key = k
                      /\ k \in DOMAIN TableOf(endpoint)'
                      /\ CountOf(endpoint, k)' = CountOf(endpoint, k) + 1
                      /\ LastOf(endpoint, TableOf(endpoint)'[k]) = now]_vars

\* an AI-generated answer whose usage log failed
C10_Witness ==
    /\ endpoint = "generate"
    /\ out.status = 200
    /\ out.by = "claude-api"
    /\ Has(out.trace, "logFail")

\* C11: every answer with status >= 400 of the login, session, submissions,
\* session-lookup, submission, participation, generation and coaching
\* handlers, those sent by requireAuth and requireAdmin included, is a JSON
\* object that carries a string field error and a string field code.
C11_ErrorBodyHasErrorAndCode ==
    out.status >= 400 => {"error", "code"} \subseteq out.keys

\* the methods a handler allows
AllowedMethods(e) ==
    CASE e = "session" -> {"GET", "DELETE"}
      [] e \in {"submissions", "lookup"} -> {"GET"}
      [] OTHER -> {"POST"}

\* the handlers that answer the OPTIONS preflight
CorsEnabled == {"generate", "participate", "participateV1", "coaching"}

\* C12: every request whose method is outside the allowed set of its handler
\* (the OPTIONS preflight of the CORS-enabled handlers excepted) is answered
\* 405 with code METHOD_NOT_ALLOWED, whatever the session and the body.
C12_WrongMethodIs405 ==
    (/\ out.status # 0
     /\ out.method \notin AllowedMethods(endpoint)
     /\ ~(out.method = "OPTIONS" /\ endpoint \in CorsEnabled)) =>
        /\ out.status = 405
        /\ out.code = "METHOD_NOT_ALLOWED"

\* the literal placeholders in square brackets of the templates
BracketTokens ==
    {"[Your business concept]", "[Problem description]", "[Amount needed]",
     "[Business Name]", "[Business concept]", "[Target market and size]",
     "[Competitive advantage]", "[Financial projections]", "[Funding amount]",
     "[Contact Information]", "[Website URL]", "[Email Address]",
     "[Compelling one-liner about your solution]", "[Funding/resources needed]"}

\* the fixed section headers of a content type, in their order
SectionHeaders(type) ==
    CASE type = "business_description" ->
            <<"BUSINESS CONCEPT", "THE PROBLEM WE'RE SOLVING", "OUR SOLUTION",
              "MARKET OPPORTUNITY", "COMPETITIVE ADVANTAGE", "WHAT WE'RE SEEKING",
              "REVENUE MODEL", "NEXT STEPS">>
      [] type = "pitch_outline" ->
            <<"NEST FEST PITCH OUTLINE (5 minutes)", "1. HOOK & PROBLEM (45 seconds)",
              "2. SOLUTION INTRODUCTION (60 seconds)", "3. MARKET OPPORTUNITY (45 seconds)",
              "4. PRODUCT DEMONSTRATION (90 seconds)",
              "5. BUSINESS MODEL & TRACTION (45 seconds)",
              "6. COMPETITIVE ADVANTAGE (30 seconds)", "7. FUNDING REQUEST & USE (30 seconds)",
              "8. CALL TO ACTION (15 seconds)", "DELIVERY TIPS:", "SUCCESS METRICS:">>
      [] type = "executive_summary" ->
            <<"EXECUTIVE SUMMARY", "COMPANY OVERVIEW", "PROBLEM & MARKET OPPORTUNITY",
              "SOLUTION & VALUE PROPOSITION", "COMPETITIVE ADVANTAGE",
              "BUSINESS MODEL & REVENUE STREAMS", "FINANCIAL PROJECTIONS",
              "TEAM & EXECUTION", "FUNDING REQUEST", "INVESTMENT OPPORTUNITY",
              "NEXT STEPS">>
      [] type = "presentation_slides" ->
            <<"NEST FEST PRESENTATION SLIDES", "SLIDE 1: TITLE SLIDE", "SLIDE 2: THE PROBLEM",
              "SLIDE 3: MARKET OPPORTUNITY", "SLIDE 4: OUR SOLUTION", "SLIDE 5: PRODUCT DEMO",
              "SLIDE 6: BUSINESS MODEL", "SLIDE 7: COMPETITIVE ADVANTAGE",
              "SLIDE 8: TRACTION & VALIDATION", "SLIDE 9: FINANCIAL PROJECTIONS",
              "SLIDE 10: TEAM", "SLIDE 11: FUNDING REQUEST", "SLIDE 12: CALL TO ACTION",
              "PRESENTATION TIPS:", "APPENDIX SLIDES (Have Ready):">>
      [] OTHER ->
            <<"PROFESSIONAL BUSINESS CONTENT", "OVERVIEW", "BUSINESS CONCEPT",
              "CHALLENGE ADDRESSED", "KEY ELEMENTS", "STRATEGIC APPROACH",
              "VALUE PROPOSITION", "RESOURCE REQUIREMENTS", "NEXT STEPS">>

\* the first position from from on where text holds x, 0 when there is none
PosFrom(text, x, from) ==
    LET P == {j \in from..Len(text) : text[j] = x}
    IN  IF P = {} THEN 0 ELSE CHOOSE j \in P : \A i \in P : j <= i

\* the headers hs[i], hs[i+1], ... occur in text from position from on, in order
RECURSIVE HeadersInOrder(_, _, _, _)
HeadersInOrder(hs, i, text, from) ==
    IF i > Len(hs) THEN TRUE
    ELSE /\ PosFrom(text, hs[i], from) # 0
         /\ HeadersInOrder(hs, i + 1, text, PosFrom(text, hs[i], from) + 1)

\* the parts of text between the header hs[i] and the next header
Section(text, hs, i) ==
    LET a == PosFrom(text, hs[i], 1)
        b == IF i < Len(hs) THEN PosFrom(text, hs[i + 1], a + 1) ELSE Len(text) + 1
    IN  {text[j] : j \in (a + 1)..(b - 1)}

\* the generator was called with the empty mapping
EmptyInputs == \A f \in DOMAIN gen.inputs : gen.inputs[f] = "absent"

\* C13: for each of the four content types, the fallback generator called with
\* the empty inputs mapping returns a non-empty string that holds no bracketed
\* placeholder [...] and holds every fixed section header of the type in order.
C13_EmptyInputsGiveCompleteProse ==
    (gen.type \in validTypes /\ EmptyInputs) =>
        /\ ~gen.threw
        /\ Len(gen.text) > 0
        /\ \A i \in 1..Len(gen.text) : gen.text[i] \notin BracketTokens
        /\ HeadersInOrder(SectionHeaders(gen.type), 1, gen.text, 1)

\* C14: generateWithTemplate(type, inputs) returns a string and never throws,
\* for every type and every shape of inputs, field values that are no strings
\* included.
C14_TemplateNeverThrows ==
    gen.type # "" => ~gen.threw /\ Len(gen.text) > 0

\* the fields of the business description with the position of their section
\* header and their canned default
DescriptionFields ==
    {<<"concept", 1, "business concept">>, <<"problem", 2, "problem statement">>,
     <<"needs", 6, "funding/resource needs">>}

\* C15: in the business_description fallback each of concept, problem and
\* needs appears verbatim (trimmed) in its section when the value is a
\* non-blank string other than the sentinel "test", and the canned default of
\* the field is there only when the value is absent, empty, blank or "test".
C15_FieldsAppearVerbatim ==
    (gen.type = "business_description" /\ ~gen.threw) =>
        \A fd \in DescriptionFields :
            LET v == gen.inputs[fd[1]]
                sec == Section(gen.text, SectionHeaders(gen.type), fd[2])
            IN  /\ v \in {"text", "padded", "hasTest"} => Trim(v) \in sec
                /\ generatePlaceholderContent(fd[3]) \in sec =>
                        v \in {"absent", "blank", "test"}

C17_AtMostFiveFailuresPerWindow ==
    endpoint = "login" => \A k \in Keys : accepted[k] <= MAX_ATTEMPTS

\* the record call just made for key k found no record or a stale one and left
\* {count: 1, lastActivity: now}, or found a live one and left its count raised
\* by 1 and its lastActivity at now
RecordedAnew(k) ==
    LET old == TableOf(endpoint)
        new == TableOf(endpoint)'
    IN  /\ k \in DOMAIN new
        /\ LastOf(endpoint, new[k]) = now
        /\ new[k].count = IF k \notin DOMAIN old \/ IsExpired(endpoint, k)
                          THEN 1
                          ELSE old[k].count + 1

\* C18: a record call (recordSubmission, recordFailedAttempt, recordGeneration)
\* made while the record of the key is stale leaves {count: 1, lastActivity:
\* now}; made while the key has no record it creates {count: 1, lastActivity:
\* now}; made on a live record it raises the count by exactly 1 and sets
\* lastActivity to now.
C18_RecordRestartsStale ==
    [][\A k \in Keys : (call'.op = "record" /\ call'.key = k) => RecordedAnew(k)]_vars

\* the isRateLimited call just made for key k created no record, changed no
\* record and deleted at most the expired record of k
CheckedOnly(k) ==
    LET old == TableOf(endpoint)
        new == TableOf(endpoint)'
    IN  /\ \A x \in DOMAIN new : x \in DOMAIN old /\ new[x] = old[x]
        /\ \A x \in (DOMAIN old) \ (DOMAIN new) : x = k /\ IsExpired(endpoint, k)
        /\ k \notin DOMAIN old => new = old
        /\ \A e \in Limited \ {endpoint} : TableOf(e)' = TableOf(e)

\* C19: isRateLimited(key) never creates a record, never changes the count or
\* the time stamp of a record and never touches the record of another key; the
\* only change it can make is to delete the expired record of key, and when key
\* has no record the whole table is unchanged.
C19_CheckOnlyDeletesOwnExpired ==
    [][\A k \in Keys :
            (call'.op = "isRateLimited" /\ call'.key = k) => CheckedOnly(k)]_vars

\* an isRateLimited call has just deleted the expired record of its key and
\* left the expired record of the other key in the table
C19_Witness ==
    /\ call.op = "isRateLimited"
    /\ call.had > 0
    /\ call.key \notin DOMAIN TableOf(endpoint)
    /\ \E k \in Keys \ {call.key} : IsExpired(endpoint, k)

\* the sweep just run deleted exactly the expired records and changed no other
SweptExpired ==
    LET old == TableOf(endpoint)
        new == TableOf(endpoint)'
    IN  /\ DOMAIN new = {k \in DOMAIN old : ~IsExpired(endpoint, k)}
        /\ \A k \in DOMAIN new : new[k] = old[k]

\* C20: each run of the sweep deletes every record with now - lastActivity >
\* window and no record that is not expired, and leaves the count and the time
\* stamp of every surviving record unchanged.
C20_SweepDeletesExactlyExpired ==
    [][call'.op = "sweep" => SweptExpired]_vars

\* a sweep has just run on a table of two records, deleted one and kept the
\* other, whose time stamp is exactly one window old
C20_Witness ==
    /\ call.op = "sweep"
    /\ call.had = 2
    /\ \E k \in Keys :
            /\ DOMAIN TableOf(endpoint) = {k}
            /\ now - LastOf(endpoint, TableOf(endpoint)[k]) = WindowOf(endpoint)

\* the categories in their priority order
TypePriority ==
    <<"management_platform", "digital_services", "software_platform",
      "consulting_service">>

\* the text includes the keyword family of category c
MatchesType(c, text) ==
    CASE c = "management_platform" -> {"manager", "management"} \cap text # {}
      [] c = "digital_services" ->
            "digital" \in text /\ {"service", "tool"} \cap text # {}
      [] c = "software_platform" -> {"platform", "software", "app"} \cap text # {}
      [] OTHER -> {"consulting", "advisor"} \cap text # {}

\* C21: the business classification is first-match-wins over the priority
\* order management_platform, digital_services, software_platform,
\* consulting_service: a concept that matches several categories gets the
\* earliest one, a concept that matches none gets general_business.
C21_FirstMatchingTypeWins ==
    ana.fn = "identifyBusinessType" =>
        LET M == {i \in 1..Len(TypePriority) : MatchesType(TypePriority[i], ana.concept)}
        IN  IF M = {}
            THEN ana.ret = "general_business"
            ELSE \E i \in M : /\ \A j \in M : i <= j
                               /\ ana.ret = TypePriority[i]

\* a concept that matches the digital services, the software platform and the
\* consulting service was classified as digital services
C21_Witness ==
    /\ ana.fn = "identifyBusinessType"
    /\ ana.concept = {"digital", "tool", "app", "advisor"}
    /\ ana.ret = "digital_services"

\* the market keywords in their priority order, with the market of each
MarketPriority ==
    <<<<"small business", "small businesses">>, <<"enterprise", "enterprise clients">>,
      <<"startup", "startups">>, <<"home", "home-based businesses">>,
      <<"restaurant", "restaurants">>, <<"retail", "retail businesses">>,
      <<"healthcare", "healthcare providers">>,
      <<"education", "educational institutions">>>>

\* C22: the inferred target market is the first match, in priority order,
\* among the market keywords found in the concept or in the problem text, and
\* it is "small and medium businesses" exactly when neither text holds a
\* market keyword.
C22_MarketFromConceptOrProblem ==
    ana.fn = "extractTargetMarket" =>
        LET found == ana.concept \cup ana.problem
            M == {i \in 1..Len(MarketPriority) : MarketPriority[i][1] \in found}
        IN  IF M = {}
            THEN ana.ret = "small and medium businesses"
            ELSE \E i \in M : /\ \A j \in M : i <= j
                               /\ ana.ret = MarketPriority[i][2]

\* the session passes the checks of fn (auth.js 101-136, 176-190)
SessionPasses(fn, s) ==
    /\ s.user
    /\ s.email
    /\ s.age # "expired"
    /\ s.role # "bogus"
    /\ fn = "requireAdmin" => s.role \in {"admin", "superadmin"}

\* C23: requireAuth and requireAdmin return true exactly when the session
\* passes their checks, and the boolean false in every failing case, also when
\* a response object was supplied and an error answer was sent
C23_ReturnsBoolean ==
    auth.fn # "" =>
        /\ auth.returns = "true" <=> SessionPasses(auth.fn, auth.session)
        /\ ~SessionPasses(auth.fn, auth.session) => auth.returns = "false"

\* C24: a user row written by createInitialAdmin(email, password, name) can
\* log in: a login with the same e-mail and password, not rate limited and with
\* healthy collaborators, is answered 200 with the role superadmin
C24_InitialAdminCanLogIn ==
    (/\ sheetCall.fn = "login"
     /\ \E a \in sheets.admins :
            ToLower(a[1]) = ToLower(sheetCall.email) /\ a[2] = sheetCall.password)
        => sheetCall.status = 200 /\ sheetCall.role = "superadmin"

\* the answers in the trace of an admin handler
AnswersOf(trace) == SelectSeq(trace, LAMBDA x : x # "read")

\* C25: a request to the submissions or session-lookup handler whose session
\* has no user, an expired login or a role other than admin and superadmin gets
\* exactly one answer, a 401 or a 403; the handler does not read the
\* spreadsheet and sends no data, whatever res.json returns.
C25_RefusedWithoutReading ==
    (/\ endpoint \in {"submissions", "lookup"}
     /\ out.status # 0
     /\ out.session \in {"none", "expired", "badrole", "user"}) =>
        /\ out.status \in {401, 403}
        /\ Len(AnswersOf(out.trace)) = 1
        /\ ~Has(out.trace, "read")
        /\ ~Has(out.trace, "")

\* C26: a locked-out login client is admitted again: a check that finds the
\* client locked out (a 429 answer) leaves the table as it is, lastAttempt and
\* count included, and the check of a client whose last recorded failed
\* attempt is more than LOCKOUT_DURATION old returns false (the request passes
\* the check) and drops the record.
C26_LockoutEnds ==
    [][\A k \in Keys :
          endpoint = "login" =>
              /\ IsLimitedReturned(k, TRUE) => attemptCounts' = attemptCounts
              /\ (IsExpired("login", k) /\ \E r \in BOOLEAN : IsLimitedReturned(k, r)) =>
                    /\ IsLimitedReturned(k, FALSE)
                    /\ k \notin DOMAIN attemptCounts']_vars

\* the check of a client with MAX_ATTEMPTS failed attempts returned false and
\* dropped the record
C26_Witness ==
    /\ endpoint = "login"
    /\ call.op = "isRateLimited"
    /\ call.had >= MAX_ATTEMPTS
    /\ ~call.ret
    /\ call.key \notin DOMAIN attemptCounts

\* C27: when the requests are handled one at a time, every record of the three
\* tables has 1 <= count <= maxCount (3 submissions, 5 failed attempts, 10
\* generations) in every reachable state.
C27_CountWithinBounds ==
    \A e \in Limited : \A k \in DOMAIN TableOf(e) :
        /\ 1 <= TableOf(e)[k].count
        /\ TableOf(e)[k].count <= MaxOf(e)

\* a client whose record is full was answered 429
C27_Witness ==
    /\ endpoint = "submit"
    /\ out.status = 429
    /\ out.key \in DOMAIN submissionCounts
    /\ submissionCounts[out.key].count = MAX_SUBMISSIONS
    /\ req = EmptyBag

\* C28: the background sweep cannot be observed: for every sequence of
\* requests and every placement of the sweep runs, between the check and the
\* record of a request included, each request gets the status and the admission
\* decision it gets in the run in which the sweep never executes (a request of
\* client k that arrives now is limited in the one run exactly when it is in
\* the other).
C28_SweepIsUnobservable ==
    driver = "twin" =>
        \A k \in Keys :
            submit_isRateLimited(submissionCounts, k, now).ret
                = submit_isRateLimited(twin, k, now).ret

\* C30: the generation request of the AI-coach page passes the validation of
\* the server: with a healthy server and a client that is not rate limited,
\* generateContent() gets a 200 answer with content and does not fall into
\* generateFallbackContent().
C30_CoachRequestIsAccepted ==
    (endpoint = "generate" /\ out.type = CoachRequest[2] /\ out.status # 429) =>
        /\ out.status = 200
        /\ generateContent(out) = "generated"

\* the fields of a listed submission, in the order of the columns
FieldsOf(s) ==
    <<s.fullName, s.email, s.major, s.businessName, s.businessDescription, s.timestamp>>

\* C29: every registration accepted by submitHandler (answered 200) is in the
\* list a later admin GET /api/submissions with a limit that covers all rows
\* returns, with the same trimmed fields, whatever the sheet held before, the
\* empty sheet included.
C29_AcceptedIsListed ==
    (sheetCall.fn = "getSubmissions" /\ sheetCall.limit >= Len(sheets.Submissions)) =>
        \A a \in sheets.accepted :
            \E i \in 1..Len(sheetCall.rows) : FieldsOf(sheetCall.rows[i]) = a

============================================================================
